---- MODULE Spec2Model ----
(***************************************************************************)
(* Persistence layer of SillyTavern-BotBrowser (src/unnamed/part_004):     *)
(* the in-memory cache (Memory Mirror), the localForage durable store with *)
(* its localStorage fallback, the one-time migration, the bounded          *)
(* collections and the TTL response cache.                                 *)
(*                                                                         *)
(* JavaScript values are tagged records, so that a value of any shape can  *)
(* sit in a store slot: [t |-> "null"], [t |-> "bool", b |-> ...],         *)
(* [t |-> "arr", l |-> <<...>>], ...  A localStorage slot holds a string:   *)
(* the JSON text of a value ([t |-> "json", v |-> value]) or text that is  *)
(* not JSON ([t |-> "garbage"]).                                           *)
(***************************************************************************)
EXTENDS Integers, Sequences, FiniteSets, TLC

\* ------------------------------------------------------------- bounds
\* largest configured maxRecentlyViewed
MaxM == 2
\* mutator calls in one behaviour of a call-sequence scenario
MaxCalls == 3
\* fire-and-forget durable writes in flight at once
MaxPending == 2
\* clock values 1..MaxTime
MaxTime == 3
\* time-to-live arguments 0..MaxTtl
MaxTtl == 2

\* ---------------------------------------------------- program constants
DefaultMaxRecent == 10
MaxImports == 500
DefaultTtlMs == 3600000

\* ------------------------------------------------------------ JS values
NullV == [t |-> "null"]
Undefined == [t |-> "undefined"]
Bool(b) == [t |-> "bool", b |-> b]
Arr(l) == [t |-> "arr", l |-> l]
Stats(n) == [t |-> "stats", total |-> n]
Search(f, s) == [t |-> "search", filters |-> f, sortBy |-> s]
Entry(ts, p) == [t |-> "entry", timestamp |-> ts, payload |-> p]
Payload(p) == [t |-> "payload", p |-> p]
Thrown == [t |-> "throw"]

\* JavaScript truthiness of the values above (0 and "" do not occur).
Truthy(v) == v.t \notin {"null", "undefined"} /\ ~(v.t = "bool" /\ v.b = FALSE)

\* JSON.stringify / JSON.parse: the text of a value, and back; text that is
\* not JSON makes JSON.parse throw.
Garbage == [t |-> "garbage"]
JsonStringify(v) == [t |-> "json", v |-> v]
ParseThrows(str) == str.t # "json"
JsonParse(str) == str.v

\* ------------------------------------------------------------------ keys
K_searchCollapsed == "botBrowser_searchCollapsed"
K_recentlyViewed == "botBrowser_recentlyViewed"
K_importStats == "botBrowser_importStats"
K_bookmarks == "botBrowser_bookmarks"
K_importedCards == "botBrowser_importedCards"
keys == <<K_searchCollapsed, K_recentlyViewed, K_importStats, K_bookmarks, K_importedCards>>
Keys == {keys[i] : i \in 1..Len(keys)}

Sources == {"chub", "janny"}
SearchKey(serviceName) == "botBrowser_lastSearch_" \o serviceName
SearchKeys == {SearchKey(s) : s \in Sources}
ApiKeys == {"api_chub_q1"}
AllKeys == Keys \cup SearchKeys \cup ApiKeys

\* ----------------------------------------------------------------- cards
Ids == {"a", "b", "c"}
NonString == "<number>"
Card(i, n, d) == [t |-> "card", id |-> i, name |-> n, description |-> d]
GoodCards == {Card(i, "n1", "text") : i \in Ids} \cup {Card("a", "n2", "text")}
NullCard == NullV
BadDescCard == Card("b", "n1", NonString)
Cards == GoodCards \cup {NullCard, BadDescCard}

VARIABLES
    memoryCache,           \* the module-level memoryCache object
    isStorageInitialized,  \* the module-level flag
    idb,                   \* localForage: key -> value, NullV when absent
    ls,                    \* localStorage: key -> string, NullV when absent
    pending,               \* idbSet calls nobody awaits, in issue order
    settings,              \* extension_settings[extensionName]
    rv,                    \* the caller's recentlyViewed list
    ret,                   \* the last synchronous call and what it returned
    inserted,              \* history: the ids addToRecentlyViewed inserted, oldest first
    now,                   \* Date.now()
    calls,                 \* mutator calls so far
    initp,                 \* the initializeStorage calls: where each one is
    idb0,                  \* history: localForage as it was at module load
    ls0,                   \* history: localStorage as it was at module load
    cachep,                \* the caller of the awaited adapter and cache calls
    written                \* history: per key, the last value that caller's idbSet was given

VARIABLES
    pygmalionApiState,     \* the module-level pagination state of each catalog
    backyardApiState,
    risuRealmApiState,
    requests,              \* the catalog requests in flight
    issued                 \* catalog requests issued so far

VARIABLES
    updateCheckResult,     \* the module-level cache of the update checker
    checks,                \* the checkForUpdates calls: where each one is
    current,               \* compareVersions: its arguments, as text
    latest,
    parts0,                \* history: the components those texts were written from
    compared,              \* what compareVersions returned, NullV before the call
    timeout,               \* debounce: the timer handle of the closure, 0 when undefined
    timers,                \* the timers set and not yet fired or cleared
    handles,               \* timer handles given out so far
    invoked,               \* history: the invocations of func, oldest first
    lastCall               \* history: the last call of the debounced function

\* The storage module's state, and the catalogs'.
storage == <<memoryCache, isStorageInitialized, idb, ls, pending, settings, rv,
             inserted, now, calls, initp, idb0, ls0, cachep, written>>
catalogs == <<pygmalionApiState, backyardApiState, risuRealmApiState, requests, issued>>

\* The update checker's state, compareVersions' arguments and result, a
\* debounced function's; what the storage module never touches, and what
\* the catalogs never touch (ret apart).
updater == <<updateCheckResult, checks>>
comparing == <<current, latest, parts0, compared>>
debouncer == <<timeout, timers, handles, invoked, lastCall>>
others == <<catalogs, updater, comparing, debouncer>>
besidesCatalogs == <<storage, updater, comparing, debouncer>>

vars == <<memoryCache, isStorageInitialized, idb, ls, pending, settings, rv, ret,
          inserted, now, calls, initp, idb0, ls0, cachep, written, others>>

\* What a synchronous accessor or mutator and a fire-and-forget write leave alone.
aside == <<initp, idb0, ls0, cachep, written, others>>

\* ------------------------------------------------------- sequence helpers
Min(a, b) == IF a < b THEN a ELSE b
Take(s, n) == SubSeq(s, 1, Min(n, Len(s)))
RemoveAt(s, i) == SubSeq(s, 1, i - 1) \o SubSeq(s, i + 1, Len(s))
IdsOf(l) == [i \in 1..Len(l) |-> l[i].id]
NoDup(s) == \A i, j \in 1..Len(s) : s[i] = s[j] => i = j
HasId(l, id) == \E i \in 1..Len(l) : l[i].id = id
WithoutId(l, id) == SelectSeq(l, LAMBDA c : c.id # id)
IndexOfId(l, id) == IF HasId(l, id) THEN CHOOSE i \in 1..Len(l) : l[i].id = id /\ \A j \in 1..(i - 1) : l[j].id # id ELSE 0
IsPrefix(s, t) == Len(s) <= Len(t) /\ SubSeq(t, 1, Len(s)) = s

\* ------------------------------------------------ the default memoryCache
DefaultCache ==
    [persistentSearches |-> [s \in Sources |-> Undefined],
     searchCollapsed |-> Bool(FALSE),
     recentlyViewed |-> Arr(<<>>),
     importStats |-> Stats(0),
     bookmarks |-> Arr(<<>>),
     importedCards |-> Arr(<<>>)]

SettingsSet ==
    [recentlyViewedEnabled : BOOLEAN, persistentSearchEnabled : BOOLEAN,
     maxRecentlyViewed : 0..MaxM]

\* A call's record: what was called, what it returned (or was given to save),
\* the card id or source it was about, and how it ended: "ok", "disabled" (gated off by
\* its feature flag), "raised" (an exception caught inside) or "threw".
NoRet == [op |-> "none", val |-> Undefined, arg |-> "", outcome |-> "ok"]
Ret(op, val, outcome) == [op |-> op, val |-> val, arg |-> "", outcome |-> outcome]
RetArg(op, val, arg, outcome) == [op |-> op, val |-> val, arg |-> arg, outcome |-> outcome]

\* ---------------------------------------------- Durable Store Adapter
\* Mutant: the write is put in front of those in flight.
idbSetIssueInFront(key, val) == pending' = <<[key |-> key, val |-> val]>> \o pending

\* idbSet called without await: localforage.setItem is started, the caller goes on.
idbSetIssue(key, val) == pending' = Append(pending, [key |-> key, val |-> val])

\* localforage.setItem resolved.
DurablePut(store, key, val) == [store EXCEPT ![key] = val]
\* localforage.setItem rejected: localStorage.setItem(key, JSON.stringify(val)),
\* which may throw in turn (lsOk = FALSE) and is then swallowed.
FallbackPut(store, key, val, lsOk) ==
    IF lsOk THEN [store EXCEPT ![key] = JsonStringify(val)] ELSE store

IdbSetResolve(i) ==
    /\ i \in 1..Len(pending)
    /\ idb' = DurablePut(idb, pending[i].key, pending[i].val)
    /\ pending' = RemoveAt(pending, i)
    /\ UNCHANGED <<aside, memoryCache, isStorageInitialized, ls, settings, rv, ret, inserted, now, calls>>

\* Mutant: a rejected write also drops the in-memory state.
IdbSetRejectRollback(i, lsOk) ==
    /\ i \in 1..Len(pending)
    /\ ls' = FallbackPut(ls, pending[i].key, pending[i].val, lsOk)
    /\ pending' = RemoveAt(pending, i)
    /\ memoryCache' = DefaultCache
    /\ UNCHANGED <<aside, isStorageInitialized, idb, settings, rv, ret, inserted, now, calls>>

IdbSetReject(i, lsOk) ==
    /\ i \in 1..Len(pending)
    /\ ls' = FallbackPut(ls, pending[i].key, pending[i].val, lsOk)
    /\ pending' = RemoveAt(pending, i)
    /\ UNCHANGED <<aside, memoryCache, isStorageInitialized, idb, settings, rv, ret, inserted, now, calls>>

\* ------------------------------------------------------------ accessors
loadSearchCollapsed == memoryCache.searchCollapsed
loadImportStats == memoryCache.importStats
loadBookmarks == IF Truthy(memoryCache.bookmarks) THEN memoryCache.bookmarks ELSE Arr(<<>>)
loadImportedCards == IF Truthy(memoryCache.importedCards) THEN memoryCache.importedCards ELSE Arr(<<>>)
\* Mutant: the search state is handed out whatever the flag says.
loadPersistentSearchUngated(s, serviceName) ==
    IF Truthy(memoryCache.persistentSearches[serviceName])
    THEN memoryCache.persistentSearches[serviceName] ELSE NullV

loadPersistentSearch(s, serviceName) ==
    IF ~s.persistentSearchEnabled THEN NullV
    ELSE IF Truthy(memoryCache.persistentSearches[serviceName])
         THEN memoryCache.persistentSearches[serviceName] ELSE NullV

\* maxRecentlyViewed || 10
MaxRecent(s) == IF s.maxRecentlyViewed = 0 THEN DefaultMaxRecent ELSE s.maxRecentlyViewed
\* Mutant: nothing is cut off.
TrimNothing(l, max) == l

\* what a list is cut to: slice(0, maxRecent) when longer
Trim(l, max) == IF Len(l) > max THEN SubSeq(l, 1, max) ELSE l

\* loadRecentlyViewed: the value returned, and the cache it leaves.  A value
\* that is no array has no length: the comparison is false and it is returned.
loadRecentlyViewedValue(cache, s) ==
    IF ~s.recentlyViewedEnabled THEN Arr(<<>>)
    ELSE LET cur == IF Truthy(cache.recentlyViewed) THEN cache.recentlyViewed ELSE Arr(<<>>)
         IN IF cur.t = "arr" THEN Arr(Trim(cur.l, MaxRecent(s))) ELSE cur
\* Mutant: a list that is too long is dropped from the cache.
loadRecentlyViewedCacheDrops(cache, s) ==
    IF s.recentlyViewedEnabled /\ cache.recentlyViewed.t = "arr"
       /\ Len(cache.recentlyViewed.l) > MaxRecent(s)
    THEN [cache EXCEPT !.recentlyViewed = Arr(<<>>)]
    ELSE cache

loadRecentlyViewedCache(cache, s) ==
    IF s.recentlyViewedEnabled /\ cache.recentlyViewed.t = "arr"
       /\ Len(cache.recentlyViewed.l) > MaxRecent(s)
    THEN [cache EXCEPT !.recentlyViewed = loadRecentlyViewedValue(cache, s)]
    ELSE cache

\* --------------------------------------------------- stored records
RecentRecord(card) == [id |-> card.id, name |-> card.name]
BookmarkRecord(card, at) == [id |-> card.id, name |-> card.name, bookmarkedAt |-> at]
ImportRecord(card, at) == [id |-> card.id, name |-> card.name, imported_at |-> at]

\* ------------------------------------------------------ recently viewed
\* Mutant: the new record is unshifted without filtering out its id first.
UpsertFrontKeepsOld(l, rec) == <<rec>> \o l

\* filter out the card's id, unshift the new record
UpsertFront(l, rec) == <<rec>> \o WithoutId(l, rec.id)

\* The list addToRecentlyViewed builds from the caller's list (the try block).
RecentlyViewedAfterAdd(s, l, card) == Trim(UpsertFront(l, RecentRecord(card)), MaxRecent(s))

\* rv is the caller's variable: it is assigned what the call returns.
addToRecentlyViewed(recentlyViewed, card) ==
    /\ calls' = calls + 1
    /\ IF ~settings.recentlyViewedEnabled
       THEN /\ ret' = Ret("addToRecentlyViewed", recentlyViewed, "disabled")
            /\ UNCHANGED <<memoryCache, pending, inserted>>
       ELSE IF recentlyViewed.t # "arr" \/ card = NullCard
       THEN \* recentlyViewed.filter or card.id throws: caught, the list passed is returned
            /\ ret' = Ret("addToRecentlyViewed", recentlyViewed, "raised")
            /\ UNCHANGED <<memoryCache, pending, inserted>>
       ELSE LET result == Arr(RecentlyViewedAfterAdd(settings, recentlyViewed.l, card)) IN
            /\ memoryCache' = [memoryCache EXCEPT !.recentlyViewed = result]
            /\ idbSetIssue(K_recentlyViewed, result)
            /\ ret' = RetArg("addToRecentlyViewed", result, card.id, "ok")
            /\ inserted' = Append(inserted, card.id)
    /\ rv' = ret'.val
    /\ UNCHANGED <<aside, isStorageInitialized, idb, ls, settings, now>>

loadRecentlyViewed ==
    /\ ret' = Ret("loadRecentlyViewed", loadRecentlyViewedValue(memoryCache, settings), "ok")
    /\ memoryCache' = loadRecentlyViewedCache(memoryCache, settings)
    /\ UNCHANGED <<aside, isStorageInitialized, idb, ls, pending, settings, rv, inserted, now, calls>>

\* ------------------------------------------------------------ bookmarks
\* Mutant: the durable write is issued, the cache is not updated.
saveBookmarksWriteOnly(bookmarks) ==
    /\ idbSetIssue(K_bookmarks, bookmarks)
    /\ UNCHANGED memoryCache

saveBookmarksEffect(bookmarks) ==
    /\ memoryCache' = [memoryCache EXCEPT !.bookmarks = bookmarks]
    /\ idbSetIssue(K_bookmarks, bookmarks)

\* Mutant: the already-bookmarked check never fires.
AlreadyBookmarkedNever(l, card) == FALSE

\* bookmarks.some(b => b.id === card.id)
AlreadyBookmarked(l, card) == HasId(l, card.id)

addBookmark(card) ==
    /\ calls' = calls + 1
    /\ IF loadBookmarks.t # "arr" \/ card = NullCard
       THEN \* bookmarks.some or card.id throws: caught, loadBookmarks() is returned
            /\ ret' = Ret("addBookmark", loadBookmarks, "raised")
            /\ UNCHANGED <<memoryCache, pending>>
       ELSE IF AlreadyBookmarked(loadBookmarks.l, card)
       THEN /\ ret' = RetArg("addBookmark", loadBookmarks, card.id, "ok")
            /\ UNCHANGED <<memoryCache, pending>>
       ELSE LET result == Arr(<<BookmarkRecord(card, now)>> \o loadBookmarks.l) IN
            /\ saveBookmarksEffect(result)
            /\ ret' = RetArg("addBookmark", result, card.id, "ok")
    /\ UNCHANGED <<aside, isStorageInitialized, idb, ls, settings, rv, inserted, now>>

\* Mutant: the filtered list is saved whether or not an entry was removed.
removeBookmarkAlwaysSaves(cardId) ==
    /\ calls' = calls + 1
    /\ IF loadBookmarks.t # "arr"
       THEN /\ ret' = Ret("removeBookmark", loadBookmarks, "raised")
            /\ UNCHANGED <<memoryCache, pending>>
       ELSE LET result == Arr(WithoutId(loadBookmarks.l, cardId)) IN
            /\ ret' = Ret("removeBookmark", result, "ok")
            /\ saveBookmarksEffect(result)
    /\ UNCHANGED <<aside, isStorageInitialized, idb, ls, settings, rv, inserted, now>>

removeBookmark(cardId) ==
    /\ calls' = calls + 1
    /\ IF loadBookmarks.t # "arr"
       THEN /\ ret' = Ret("removeBookmark", loadBookmarks, "raised")
            /\ UNCHANGED <<memoryCache, pending>>
       ELSE LET result == Arr(WithoutId(loadBookmarks.l, cardId)) IN
            /\ ret' = Ret("removeBookmark", result, "ok")
            /\ IF Len(result.l) < Len(loadBookmarks.l)
               THEN saveBookmarksEffect(result)
               ELSE UNCHANGED <<memoryCache, pending>>
    /\ UNCHANGED <<aside, isStorageInitialized, idb, ls, settings, rv, inserted, now>>

isBookmarked(cardId) ==
    /\ ret' = IF loadBookmarks.t # "arr" THEN Ret("isBookmarked", Thrown, "threw")
              ELSE Ret("isBookmarked", Bool(HasId(loadBookmarks.l, cardId)), "ok")
    /\ UNCHANGED <<aside, memoryCache, isStorageInitialized, idb, ls, pending, settings, rv,
                   inserted, now, calls>>

loadBookmarksCall ==
    /\ ret' = Ret("loadBookmarks", loadBookmarks, "ok")
    /\ UNCHANGED <<aside, memoryCache, isStorageInitialized, idb, ls, pending, settings, rv,
                   inserted, now, calls>>

\* -------------------------------------------------------- import history
saveImportedCardsEffect(cards) ==
    /\ memoryCache' = [memoryCache EXCEPT !.importedCards = cards]
    /\ idbSetIssue(K_importedCards, cards)

\* Mutant: only a null card makes trackImportedCard raise.
TrackThrowsOnNullOnly(l, card) == card = NullCard

\* card.description.substring on a description that is no string
TrackThrows(l, card) ==
    \/ card = NullCard
    \/ (~HasId(l, card.id) /\ card.description = NonString)

\* Mutant: the entry already there is replaced by a record of the new card.
ImportedAfterTrackReplaces(l, card, at) ==
    Trim(<<ImportRecord(card, at)>> \o WithoutId(l, card.id), MaxImports)

\* The list trackImportedCard leaves: an entry already there gets a new
\* imported_at and moves to the front, a new one is built from the card.
ImportedAfterTrack(l, card, at) ==
    LET i == IndexOfId(l, card.id)
        moved == IF i # 0
                 THEN <<[l[i] EXCEPT !.imported_at = at]>> \o RemoveAt(l, i)
                 ELSE <<ImportRecord(card, at)>> \o l
    IN Trim(moved, MaxImports)

trackImportedCard(card) ==
    /\ calls' = calls + 1
    /\ IF loadImportedCards.t # "arr" \/ TrackThrows(loadImportedCards.l, card)
       THEN /\ ret' = Ret("trackImportedCard", loadImportedCards, "raised")
            /\ UNCHANGED <<memoryCache, pending>>
       ELSE LET result == Arr(ImportedAfterTrack(loadImportedCards.l, card, now)) IN
            /\ saveImportedCardsEffect(result)
            /\ ret' = RetArg("trackImportedCard", result, card.id, "ok")
    /\ UNCHANGED <<aside, isStorageInitialized, idb, ls, settings, rv, inserted, now>>

removeImportedCard(cardId) ==
    /\ calls' = calls + 1
    /\ IF loadImportedCards.t # "arr"
       THEN /\ ret' = Ret("removeImportedCard", loadImportedCards, "raised")
            /\ UNCHANGED <<memoryCache, pending>>
       ELSE LET result == Arr(WithoutId(loadImportedCards.l, cardId)) IN
            /\ ret' = Ret("removeImportedCard", result, "ok")
            /\ IF Len(result.l) < Len(loadImportedCards.l)
               THEN saveImportedCardsEffect(result)
               ELSE UNCHANGED <<memoryCache, pending>>
    /\ UNCHANGED <<aside, isStorageInitialized, idb, ls, settings, rv, inserted, now>>

clearImportedCards ==
    /\ calls' = calls + 1
    /\ saveImportedCardsEffect(Arr(<<>>))
    /\ ret' = Ret("clearImportedCards", Arr(<<>>), "ok")
    /\ UNCHANGED <<aside, isStorageInitialized, idb, ls, settings, rv, inserted, now>>

loadImportedCardsCall ==
    /\ ret' = Ret("loadImportedCards", loadImportedCards, "ok")
    /\ UNCHANGED <<aside, memoryCache, isStorageInitialized, idb, ls, pending, settings, rv,
                   inserted, now, calls>>

\* ------------------------------------------- import stats, collapsed flag
StatsInputs == {Stats(1)}

saveImportStats(importStats) ==
    /\ calls' = calls + 1
    /\ memoryCache' = [memoryCache EXCEPT !.importStats = importStats]
    /\ idbSetIssue(K_importStats, importStats)
    /\ ret' = Ret("saveImportStats", importStats, "ok")
    /\ UNCHANGED <<aside, isStorageInitialized, idb, ls, settings, rv, inserted, now>>

loadImportStatsCall ==
    /\ ret' = Ret("loadImportStats", loadImportStats, "ok")
    /\ UNCHANGED <<aside, memoryCache, isStorageInitialized, idb, ls, pending, settings, rv,
                   inserted, now, calls>>

\* Mutant: the durable write carries the value the cache held before.
saveSearchCollapsedStale(collapsed) ==
    /\ calls' = calls + 1
    /\ memoryCache' = [memoryCache EXCEPT !.searchCollapsed = collapsed]
    /\ idbSetIssue(K_searchCollapsed, memoryCache.searchCollapsed)
    /\ ret' = Ret("saveSearchCollapsed", collapsed, "ok")
    /\ UNCHANGED <<aside, isStorageInitialized, idb, ls, settings, rv, inserted, now>>

saveSearchCollapsed(collapsed) ==
    /\ calls' = calls + 1
    /\ memoryCache' = [memoryCache EXCEPT !.searchCollapsed = collapsed]
    /\ idbSetIssue(K_searchCollapsed, collapsed)
    /\ ret' = Ret("saveSearchCollapsed", collapsed, "ok")
    /\ UNCHANGED <<aside, isStorageInitialized, idb, ls, settings, rv, inserted, now>>

loadSearchCollapsedCall ==
    /\ ret' = Ret("loadSearchCollapsed", loadSearchCollapsed, "ok")
    /\ UNCHANGED <<aside, memoryCache, isStorageInitialized, idb, ls, pending, settings, rv,
                   inserted, now, calls>>

\* ------------------------------------------------ per-source search state
SearchInputs == {Search("f1", "s1"), Search("f2", "s1")}

\* Mutant: the search is written through to localforage as well.
savePersistentSearchWritesThrough(serviceName, data, lsOk) ==
    /\ calls' = calls + 1
    /\ IF ~settings.persistentSearchEnabled
       THEN /\ ret' = RetArg("savePersistentSearch", data, serviceName, "disabled")
            /\ UNCHANGED <<memoryCache, ls, pending>>
       ELSE /\ ret' = RetArg("savePersistentSearch", data, serviceName, "ok")
            /\ memoryCache' = [memoryCache EXCEPT !.persistentSearches[serviceName] = data]
            /\ ls' = FallbackPut(ls, SearchKey(serviceName), data, lsOk)
            /\ idbSetIssue(SearchKey(serviceName), data)
    /\ UNCHANGED <<aside, isStorageInitialized, idb, settings, rv, inserted, now>>

\* lsOk = FALSE: localStorage.setItem throws, which is swallowed.
savePersistentSearch(serviceName, data, lsOk) ==
    /\ calls' = calls + 1
    /\ IF ~settings.persistentSearchEnabled
       THEN /\ ret' = RetArg("savePersistentSearch", data, serviceName, "disabled")
            /\ UNCHANGED <<memoryCache, ls>>
       ELSE /\ ret' = RetArg("savePersistentSearch", data, serviceName, "ok")
            /\ memoryCache' = [memoryCache EXCEPT !.persistentSearches[serviceName] = data]
            /\ ls' = FallbackPut(ls, SearchKey(serviceName), data, lsOk)
    /\ UNCHANGED <<aside, isStorageInitialized, idb, pending, settings, rv, inserted, now>>

loadPersistentSearchCall(serviceName) ==
    /\ ret' = RetArg("loadPersistentSearch", loadPersistentSearch(settings, serviceName), serviceName, "ok")
    /\ UNCHANGED <<aside, memoryCache, isStorageInitialized, idb, ls, pending, settings, rv,
                   inserted, now, calls>>

\* ------------------------------------------------------- the environment
\* The settings collaborator changes the configuration.
SetSettings(s) ==
    /\ s \in SettingsSet /\ s # settings
    /\ settings' = s
    /\ ret' = NoRet
    /\ UNCHANGED <<aside, memoryCache, isStorageInitialized, idb, ls, pending, rv, inserted,
                   now, calls>>

Tick ==
    /\ now < MaxTime
    /\ now' = now + 1
    /\ UNCHANGED <<aside, memoryCache, isStorageInitialized, idb, ls, pending, settings, rv,
                   ret, inserted, calls>>

\* ------------------------------------------------------ initializeStorage
\* The call sites that invoke initializeStorage.
Callers == {"c1", "c2"}

\* One call: pc is "idle" (not called yet), "idbGet" (suspended in
\* await idbGet(key)), "idbSet" (suspended in await idbSet(key, parsed)),
\* "done", "noop" (returned at the isStorageInitialized check) or "rejected"
\* (its promise rejected).  k indexes keys; faulted: a store call of this
\* invocation failed.
IdleCall == [pc |-> "idle", k |-> 0, lsVal |-> NullV, parsed |-> NullV, faulted |-> FALSE]

SetField(cache, key, val) ==
    CASE key = K_searchCollapsed -> [cache EXCEPT !.searchCollapsed = val]
      [] key = K_recentlyViewed -> [cache EXCEPT !.recentlyViewed = val]
      [] key = K_importStats -> [cache EXCEPT !.importStats = val]
      [] key = K_bookmarks -> [cache EXCEPT !.bookmarks = val]
      [] key = K_importedCards -> [cache EXCEPT !.importedCards = val]
GetField(cache, key) ==
    CASE key = K_searchCollapsed -> cache.searchCollapsed
      [] key = K_recentlyViewed -> cache.recentlyViewed
      [] key = K_importStats -> cache.importStats
      [] key = K_bookmarks -> cache.bookmarks
      [] key = K_importedCards -> cache.importedCards

\* Mutant: nothing is ever migrated.
NeedsMigrationNever(lsVal, idbVal) == FALSE

\* if (lsVal && !idbVal)
NeedsMigration(lsVal, idbVal) == Truthy(lsVal) /\ ~Truthy(idbVal)

\* Mutant: legacy text that does not parse leaves null in the cache.
LoadKeyNullOnGarbage(cache, key, idbVal, lsVal) ==
    IF idbVal.t \notin {"undefined", "null"} THEN SetField(cache, key, idbVal)
    ELSE IF Truthy(lsVal) /\ ParseThrows(lsVal) THEN SetField(cache, key, NullV)
    ELSE IF Truthy(lsVal) THEN SetField(cache, key, JsonParse(lsVal))
    ELSE cache

\* "Load into memory cache": the durable (or migrated) value when there is
\* one, else the legacy value when it parses.
LoadKey(cache, key, idbVal, lsVal) ==
    IF idbVal.t \notin {"undefined", "null"} THEN SetField(cache, key, idbVal)
    ELSE IF Truthy(lsVal) /\ ~ParseThrows(lsVal) THEN SetField(cache, key, JsonParse(lsVal))
    ELSE cache

\* The per-source search keys in localStorage, and those whose text parses.
SearchPresent == {s \in Sources : ls[SearchKey(s)] # NullV}
SearchGood == {s \in SearchPresent : ~ParseThrows(ls[SearchKey(s)])}

\* The second pass walks localStorage in the browser's key order and stops at
\* the first entry that throws: the sources in L are those it loaded.
ScanLoads(L, lsThrows) ==
    /\ L \subseteq SearchGood
    /\ (L # SearchGood => (lsThrows \/ SearchPresent # SearchGood))
ScanSearches(cache, L) ==
    [cache EXCEPT !.persistentSearches =
        [s \in Sources |-> IF s \in L THEN JsonParse(ls[SearchKey(s)]) ELSE @[s]]]

\* After key k is loaded (cache is the memoryCache it leaves): the next key's
\* localStorage.getItem and idbGet, or the second pass and the flag.
InitContinue(p, cache, faulted, lsThrows, L) ==
    IF initp[p].k < Len(keys)
    THEN /\ L = {}
         /\ memoryCache' = cache
         /\ UNCHANGED isStorageInitialized
         /\ initp' = [initp EXCEPT ![p] =
                IF lsThrows
                THEN [@ EXCEPT !.pc = "rejected", !.faulted = TRUE]
                ELSE [@ EXCEPT !.pc = "idbGet", !.k = @ + 1,
                               !.lsVal = ls[keys[initp[p].k + 1]], !.parsed = NullV,
                               !.faulted = faulted]]
    ELSE /\ ScanLoads(L, lsThrows)
         /\ memoryCache' = ScanSearches(cache, L)
         /\ isStorageInitialized' = TRUE
         /\ initp' = [initp EXCEPT ![p] =
                [@ EXCEPT !.pc = "done", !.faulted = faulted \/ lsThrows]]

\* The flag test at the top of initializeStorage.
AlreadyInitialized == isStorageInitialized

initializeStorage(p, lsThrows) ==
    /\ initp[p].pc = "idle"
    /\ IF AlreadyInitialized
       THEN /\ ~lsThrows
            /\ initp' = [initp EXCEPT ![p] = [@ EXCEPT !.pc = "noop"]]
       ELSE initp' = [initp EXCEPT ![p] =
                IF lsThrows
                THEN [@ EXCEPT !.pc = "rejected", !.faulted = TRUE]
                ELSE [@ EXCEPT !.pc = "idbGet", !.k = 1, !.lsVal = ls[keys[1]]]]
    /\ UNCHANGED <<memoryCache, isStorageInitialized, idb, ls, pending, settings, rv, ret,
                   inserted, now, calls, idb0, ls0, cachep, written, others>>

\* await idbGet(key) returns: the stored value, or null when the read failed.
InitIdbGetDone(p, readOk, lsThrows, L) ==
    /\ initp[p].pc = "idbGet"
    /\ LET key == keys[initp[p].k]
           lsVal == initp[p].lsVal
           idbVal == IF readOk THEN idb[key] ELSE NullV
           faulted == initp[p].faulted \/ ~readOk
       IN IF NeedsMigration(lsVal, idbVal) /\ ~ParseThrows(lsVal)
          THEN /\ ~lsThrows /\ L = {}
               /\ initp' = [initp EXCEPT ![p] =
                      [@ EXCEPT !.pc = "idbSet", !.parsed = JsonParse(lsVal),
                                !.faulted = faulted]]
               /\ UNCHANGED <<memoryCache, isStorageInitialized>>
          ELSE InitContinue(p, LoadKey(memoryCache, key, idbVal, lsVal), faulted, lsThrows, L)
    /\ UNCHANGED <<idb, ls, pending, settings, rv, ret, inserted, now, calls, idb0, ls0,
                   cachep, written, others>>

\* await idbSet(key, parsed) returns, the write done or failed over to localStorage.
InitIdbSetDone(p, writeOk, lsOk, lsThrows, L) ==
    /\ initp[p].pc = "idbSet"
    /\ (writeOk => lsOk)
    /\ LET key == keys[initp[p].k]
           parsed == initp[p].parsed
           faulted == initp[p].faulted \/ ~writeOk
       IN /\ IF writeOk
             THEN idb' = DurablePut(idb, key, parsed) /\ UNCHANGED ls
             ELSE ls' = FallbackPut(ls, key, parsed, lsOk) /\ UNCHANGED idb
          /\ InitContinue(p, LoadKey(memoryCache, key, parsed, initp[p].lsVal), faulted, lsThrows, L)
    /\ UNCHANGED <<pending, settings, rv, ret, inserted, now, calls, idb0, ls0, cachep,
                   written, others>>

\* ------------------------------------ awaited adapter and cache calls
\* A caller that awaits idbSet, idbGet, idbSetCachedApi and idbGetCachedApi
\* one after the other: pc is "idle", "idbSet" (suspended in setItem) or
\* "idbGet" (suspended in getItem); when a call has returned, result is what
\* it returned, at the clock when it did, ok whether its localForage call
\* succeeded.
IdleClient ==
    [pc |-> "idle", op |-> "none", key |-> "", val |-> NullV, ttl |-> 0,
     result |-> Undefined, at |-> 0, ok |-> TRUE]

\* how: "none", or where the last awaited idbSet of the key left val:
\* "durable" (localForage), "fallback" (localStorage), "lost" (both failed).
NotWritten == [how |-> "none", val |-> NullV]

AdapterSet(op, key, val) ==
    /\ cachep.pc = "idle"
    /\ cachep' = [IdleClient EXCEPT !.pc = "idbSet", !.op = op, !.key = key, !.val = val]
    /\ UNCHANGED <<memoryCache, isStorageInitialized, idb, ls, pending, settings, rv, ret,
                   inserted, now, calls, initp, idb0, ls0, written, others>>

AdapterGet(op, key, ttlMs) ==
    /\ cachep.pc = "idle"
    /\ cachep' = [IdleClient EXCEPT !.pc = "idbGet", !.op = op, !.key = key, !.ttl = ttlMs]
    /\ UNCHANGED <<memoryCache, isStorageInitialized, idb, ls, pending, settings, rv, ret,
                   inserted, now, calls, initp, idb0, ls0, written, others>>

idbSet(key, val) == AdapterSet("idbSet", key, val)
idbGet(key) == AdapterGet("idbGet", key, 0)
idbSetCachedApi(key, data) == AdapterSet("idbSetCachedApi", key, Entry(now, data))
idbGetCachedApi(key, ttlMs) == AdapterGet("idbGetCachedApi", key, ttlMs)

\* data && data.timestamp && (Date.now() - data.timestamp < ttlMs)
HasFreshTimestamp(data, t, ttlMs) ==
    /\ Truthy(data)
    /\ data.t = "entry"
    /\ data.timestamp # 0
    /\ t - data.timestamp < ttlMs
CachedPayload(data, t, ttlMs) ==
    IF HasFreshTimestamp(data, t, ttlMs) THEN data.payload ELSE NullV

\* setItem settles: done, or failed over to localStorage.setItem.
IdbSetDone(writeOk, lsOk) ==
    /\ cachep.pc = "idbSet"
    /\ (writeOk => lsOk)
    /\ IF writeOk
       THEN idb' = DurablePut(idb, cachep.key, cachep.val) /\ UNCHANGED ls
       ELSE ls' = FallbackPut(ls, cachep.key, cachep.val, lsOk) /\ UNCHANGED idb
    /\ written' = [written EXCEPT ![cachep.key] =
            [how |-> IF writeOk THEN "durable" ELSE IF lsOk THEN "fallback" ELSE "lost",
             val |-> cachep.val]]
    /\ cachep' = [cachep EXCEPT !.pc = "idle", !.result = Undefined, !.at = now,
                                !.ok = writeOk]
    /\ UNCHANGED <<memoryCache, isStorageInitialized, pending, settings, rv, ret,
                   inserted, now, calls, initp, idb0, ls0, others>>

\* getItem settles: the stored value, or null when it failed.
IdbGetDone(readOk) ==
    /\ cachep.pc = "idbGet"
    /\ LET data == IF readOk THEN idb[cachep.key] ELSE NullV
       IN cachep' = [cachep EXCEPT !.pc = "idle", !.at = now, !.ok = readOk,
                        !.result = IF cachep.op = "idbGetCachedApi"
                                   THEN CachedPayload(data, now, cachep.ttl)
                                   ELSE data]
    /\ UNCHANGED <<memoryCache, isStorageInitialized, idb, ls, pending, settings, rv, ret,
                   inserted, now, calls, initp, idb0, ls0, written, others>>

\* ---------------------------------------------------- catalog pagination
\* catalog requests issued in one behaviour
MaxRequests == 3

\* A string value (a cursor).
Str(s) == [t |-> "str", s |-> s]

\* The pagination state objects as declared (the remembered search text,
\* sort and type, which are passed on and never tested, are left out).
PygmalionDefault == [page |-> 1, hasMore |-> TRUE, isLoading |-> FALSE, totalItems |-> 0]
BackyardDefault == [cursor |-> NullV, hasMore |-> TRUE, isLoading |-> FALSE]
RisuRealmDefault == [page |-> 1, hasMore |-> TRUE, isLoading |-> FALSE, totalPages |-> 1]

\* What a request that succeeds brings back: whether the page was full and the
\* total (Pygmalion), the next cursor if any (Backyard), whether the page was
\* full and the page count of the metadata (RisuRealm).
PygmalionResults == [hasMore : BOOLEAN, totalItems : {7}]
BackyardResults == {[nextCursor |-> c, hasMore |-> c # NullV] : c \in {NullV, Str("k1"), Str("k2")}}
RisuRealmResults == [hasMore : BOOLEAN, totalPages : {1}]

\* A request in flight: the n-th issued, by op ("loadMore", "browse" or
\* "search") of src, for a page or from a cursor.  History: before is the
\* pagination state its call found; alone, no other call or completion of
\* that catalog has acted since; stale, the state was reset since.
Request(src, op, page, cursor, before) ==
    [n |-> issued + 1, src |-> src, op |-> op, page |-> page, cursor |-> cursor,
     before |-> before, alone |-> TRUE, stale |-> FALSE]

\* The requests rs after a call or completion of src (reset: one that
\* replaces the state object).
Disturbed(rs, src, reset) ==
    {[r EXCEPT !.alone = IF r.src = src THEN FALSE ELSE @,
               !.stale = IF r.src = src /\ reset THEN TRUE ELSE @] : r \in rs}

\* The request goes out.
Send(r, reset) ==
    /\ issued < MaxRequests
    /\ issued' = issued + 1
    /\ requests' = Disturbed(requests, r.src, reset) \cup {r}

\* ---- Pygmalion
resetPygmalionApiState ==
    /\ pygmalionApiState' = PygmalionDefault
    /\ requests' = Disturbed(requests, "pygmalion", TRUE)
    /\ UNCHANGED <<besidesCatalogs, ret, backyardApiState, risuRealmApiState, issued>>

\* Up to the await: the guard, or isLoading set, the page advanced and the
\* request for that page sent.  A call that returns at the guard resolves to
\* []; the other's promise is pending.
loadMorePygmalionCharacters ==
    /\ IF pygmalionApiState.isLoading \/ ~pygmalionApiState.hasMore
       THEN /\ ret' = RetArg("loadMorePygmalionCharacters", Arr(<<>>), "pygmalion", "ok")
            /\ UNCHANGED catalogs
       ELSE /\ pygmalionApiState' = [pygmalionApiState EXCEPT !.isLoading = TRUE, !.page = @ + 1]
            /\ Send(Request("pygmalion", "loadMore", pygmalionApiState.page + 1, NullV,
                            pygmalionApiState), FALSE)
            /\ ret' = RetArg("loadMorePygmalionCharacters", Undefined, "pygmalion", "pending")
            /\ UNCHANGED <<backyardApiState, risuRealmApiState>>
    /\ UNCHANGED besidesCatalogs

\* After the await: the result stored when the request succeeded, and finally
\* isLoading cleared, in the state object current by then.
loadMorePygmalionDone(r, ok, result) ==
    /\ r \in requests /\ r.src = "pygmalion" /\ r.op = "loadMore"
    /\ pygmalionApiState' =
          IF ok THEN [pygmalionApiState EXCEPT !.hasMore = result.hasMore,
                                               !.totalItems = result.totalItems,
                                               !.isLoading = FALSE]
          ELSE [pygmalionApiState EXCEPT !.isLoading = FALSE]
    /\ requests' = Disturbed(requests \ {r}, "pygmalion", FALSE)
    /\ UNCHANGED <<besidesCatalogs, ret, backyardApiState, risuRealmApiState, issued>>

\* Up to the await: the state reset, the page set, the request sent.
browsePygmalionCharacters(page) ==
    /\ pygmalionApiState' = [PygmalionDefault EXCEPT !.page = page]
    /\ Send(Request("pygmalion", "browse", page, NullV, pygmalionApiState), TRUE)
    /\ ret' = RetArg("browsePygmalionCharacters", Undefined, "pygmalion", "pending")
    /\ UNCHANGED <<besidesCatalogs, backyardApiState, risuRealmApiState>>

\* After the await; a failed request rejects the call and stores nothing.
browsePygmalionDone(r, ok, result) ==
    /\ r \in requests /\ r.src = "pygmalion" /\ r.op = "browse"
    /\ pygmalionApiState' =
          IF ok THEN [pygmalionApiState EXCEPT !.hasMore = result.hasMore,
                                               !.totalItems = result.totalItems]
          ELSE pygmalionApiState
    /\ requests' = Disturbed(requests \ {r}, "pygmalion", FALSE)
    /\ UNCHANGED <<besidesCatalogs, ret, backyardApiState, risuRealmApiState, issued>>

\* ---- Backyard
resetBackyardApiState ==
    /\ backyardApiState' = BackyardDefault
    /\ requests' = Disturbed(requests, "backyard", TRUE)
    /\ UNCHANGED <<besidesCatalogs, ret, pygmalionApiState, risuRealmApiState, issued>>

loadMoreBackyardCharacters ==
    /\ IF backyardApiState.isLoading \/ ~backyardApiState.hasMore
       THEN /\ ret' = RetArg("loadMoreBackyardCharacters", Arr(<<>>), "backyard", "ok")
            /\ UNCHANGED catalogs
       ELSE /\ backyardApiState' = [backyardApiState EXCEPT !.isLoading = TRUE]
            /\ Send(Request("backyard", "loadMore", 0, backyardApiState.cursor, backyardApiState), FALSE)
            /\ ret' = RetArg("loadMoreBackyardCharacters", Undefined, "backyard", "pending")
            /\ UNCHANGED <<pygmalionApiState, risuRealmApiState>>
    /\ UNCHANGED besidesCatalogs

loadMoreBackyardDone(r, ok, result) ==
    /\ r \in requests /\ r.src = "backyard" /\ r.op = "loadMore"
    /\ backyardApiState' =
          IF ok THEN [backyardApiState EXCEPT !.cursor = result.nextCursor,
                                              !.hasMore = result.hasMore,
                                              !.isLoading = FALSE]
          ELSE [backyardApiState EXCEPT !.isLoading = FALSE]
    /\ requests' = Disturbed(requests \ {r}, "backyard", FALSE)
    /\ UNCHANGED <<besidesCatalogs, ret, pygmalionApiState, risuRealmApiState, issued>>

\* ---- RisuRealm
resetRisuRealmState ==
    /\ risuRealmApiState' = RisuRealmDefault
    /\ requests' = Disturbed(requests, "risu", TRUE)
    /\ UNCHANGED <<besidesCatalogs, ret, pygmalionApiState, backyardApiState, issued>>

\* searchRisuRealm up to its await, called as op for page.
RisuRealmRequest(op, page) ==
    /\ risuRealmApiState' = [risuRealmApiState EXCEPT !.isLoading = TRUE]
    /\ Send(Request("risu", op, page, NullV, risuRealmApiState), FALSE)
    /\ UNCHANGED <<besidesCatalogs, pygmalionApiState, backyardApiState>>

searchRisuRealm(page) ==
    /\ RisuRealmRequest("search", page)
    /\ ret' = RetArg("searchRisuRealm", Undefined, "risu", "pending")

loadMoreRisuRealm ==
    IF risuRealmApiState.isLoading \/ ~risuRealmApiState.hasMore
    THEN /\ ret' = RetArg("loadMoreRisuRealm", Arr(<<>>), "risu", "ok")
         /\ UNCHANGED <<besidesCatalogs, catalogs>>
    ELSE /\ RisuRealmRequest("loadMore", risuRealmApiState.page + 1)
         /\ ret' = RetArg("loadMoreRisuRealm", Undefined, "risu", "pending")

\* searchRisuRealm after its await: the page reached and what the answer
\* says stored when the request succeeded; finally isLoading cleared.
searchRisuRealmDone(r, ok, result) ==
    /\ r \in requests /\ r.src = "risu"
    /\ risuRealmApiState' =
          IF ok THEN [risuRealmApiState EXCEPT
                         !.page = r.page,
                         !.totalPages = LET least == r.page + (IF result.hasMore THEN 1 ELSE 0)
                                        IN IF result.totalPages > least THEN result.totalPages ELSE least,
                         !.hasMore = result.hasMore,
                         !.isLoading = FALSE]
          ELSE [risuRealmApiState EXCEPT !.isLoading = FALSE]
    /\ requests' = Disturbed(requests \ {r}, "risu", FALSE)
    /\ UNCHANGED <<besidesCatalogs, ret, pygmalionApiState, backyardApiState, issued>>

\* ------------------------------------------------------- compareVersions
\* components of a version
MaxParts == 3

\* Text is a sequence of characters.
Digits == <<"0", "1", "2", "3", "4", "5", "6", "7", "8", "9">>
IsDigit(ch) == \E d \in 1..10 : Digits[d] = ch
DigitValue(ch) == (CHOOSE d \in 1..10 : Digits[d] = ch) - 1

\* The decimal text of a number, and versions written out: the components
\* joined by dots.
RECURSIVE DecimalText(_)
DecimalText(n) == IF n < 10 THEN <<Digits[n + 1]>> ELSE DecimalText(n \div 10) \o <<Digits[(n % 10) + 1]>>
RECURSIVE VersionText(_)
VersionText(parts) ==
    IF Len(parts) = 1 THEN DecimalText(parts[1])
    ELSE DecimalText(parts[1]) \o <<".">> \o VersionText(Tail(parts))

\* str.split('.')
RECURSIVE Split(_)
Split(str) ==
    IF \A i \in 1..Len(str) : str[i] # "." THEN <<str>>
    ELSE LET d == CHOOSE i \in 1..Len(str) : str[i] = "." /\ \A j \in 1..(i - 1) : str[j] # "."
         IN <<SubSeq(str, 1, d - 1)>> \o Split(SubSeq(str, d + 1, Len(str)))

\* Number(part): 0 for the empty text, the decimal value of digits, else NaN.
NaN == [t |-> "NaN"]
RECURSIVE DecimalValue(_)
DecimalValue(part) ==
    IF part = <<>> THEN 0
    ELSE 10 * DecimalValue(SubSeq(part, 1, Len(part) - 1)) + DigitValue(part[Len(part)])
Num(n) == [t |-> "num", n |-> n]
Number(part) == IF \A i \in 1..Len(part) : IsDigit(part[i]) THEN Num(DecimalValue(part)) ELSE NaN

\* Mutant: a missing component counts as less than any present.
PartOrZeroMissingLow(parts, i) == IF i > Len(parts) THEN 0 - 1 ELSE IF parts[i] = NaN THEN 0 ELSE parts[i].n

\* parts[i] || 0
PartOrZero(parts, i) == IF i > Len(parts) THEN 0 ELSE IF parts[i] = NaN THEN 0 ELSE parts[i].n

\* The loop from component i on.
RECURSIVE CompareFrom(_, _, _)
CompareFrom(currentParts, latestParts, i) ==
    IF i > Len(currentParts) /\ i > Len(latestParts) THEN 0
    ELSE LET curr == PartOrZero(currentParts, i)
             lat == PartOrZero(latestParts, i)
         IN IF curr < lat THEN 0 - 1
            ELSE IF curr > lat THEN 1
            ELSE CompareFrom(currentParts, latestParts, i + 1)

compareVersions(cur, lat) ==
    LET currentParts == [i \in 1..Len(Split(cur)) |-> Number(Split(cur)[i])]
        latestParts == [i \in 1..Len(Split(lat)) |-> Number(Split(lat)[i])]
    IN CompareFrom(currentParts, latestParts, 1)

\* The call.
CompareVersionsCall ==
    /\ compared = NullV
    /\ compared' = Num(compareVersions(current, latest))
    /\ UNCHANGED <<storage, ret, catalogs, updater, debouncer, current, latest, parts0>>

\* -------------------------------------------------------- update checker
\* The call sites of checkForUpdates, and how many manifest URLs are tried.
Checkers == {"u1", "u2"}
ManifestUrls == 2

\* The versions the call sites pass, and what fetching a manifest yields:
\* its version, or nothing (the fetch threw, the response was not ok or
\* carried no version).
CurrentVersions == {VersionText(<<1, 0>>), VersionText(<<1, 1>>)}
ManifestAnswers == {NullV, Str(VersionText(<<1, 1>>))}

\* One call: pc is "idle", "fetch" (suspended in the fetch of manifest URL
\* number url) or "done", result then being what it returned.
IdleCheck == [pc |-> "idle", url |-> 0, currentVersion |-> <<>>, result |-> NullV]

UpdateFound(latestVersion, currentVersion) ==
    [hasUpdate |-> compareVersions(currentVersion, latestVersion.s) < 0,
     latestVersion |-> latestVersion, currentVersion |-> currentVersion, error |-> NullV]
UpdateUnknown(currentVersion) ==
    [hasUpdate |-> FALSE, latestVersion |-> NullV, currentVersion |-> currentVersion,
     error |-> Str("Could not reach update server")]

\* Up to the first await: the cached result returned, or the first fetch.
checkForUpdates(c, currentVersion) ==
    /\ checks[c].pc \in {"idle", "done"}
    /\ checks' = [checks EXCEPT ![c] =
            IF updateCheckResult # NullV
            THEN [pc |-> "done", url |-> 0, currentVersion |-> currentVersion,
                  result |-> updateCheckResult]
            ELSE [pc |-> "fetch", url |-> 1, currentVersion |-> currentVersion,
                  result |-> NullV]]
    /\ UNCHANGED <<storage, ret, catalogs, comparing, debouncer, updateCheckResult>>

\* A fetch settles: the result is built, cached and returned, or the next URL
\* is tried, or, none being left, the failure is cached and returned.
ManifestFetched(c, answer) ==
    /\ checks[c].pc = "fetch"
    /\ IF answer # NullV
       THEN LET r == UpdateFound(answer, checks[c].currentVersion) IN
            /\ updateCheckResult' = r
            /\ checks' = [checks EXCEPT ![c] = [@ EXCEPT !.pc = "done", !.result = r]]
       ELSE IF checks[c].url < ManifestUrls
       THEN /\ checks' = [checks EXCEPT ![c] = [@ EXCEPT !.url = @ + 1]]
            /\ UNCHANGED updateCheckResult
       ELSE LET r == UpdateUnknown(checks[c].currentVersion) IN
            /\ updateCheckResult' = r
            /\ checks' = [checks EXCEPT ![c] = [@ EXCEPT !.pc = "done", !.result = r]]
    /\ UNCHANGED <<storage, ret, catalogs, comparing, debouncer>>

\* ---------------------------------------------------------------- debounce
\* calls of the debounced function in one behaviour
MaxDebounced == 3
\* the wait the function was debounced with
wait == 1
\* the arguments it is called with
DebounceArgs == {"x", "y", "z"}

\* setTimeout(later, wait): a timer, due wait from now, whose closure holds
\* the arguments of the call that set it (set: when that was).
Timer(id, args) == [id |-> id, due |-> now + wait, args |-> args, set |-> now]

\* clearTimeout(handle)
Cleared(ts, handle) == {t \in ts : t.id # handle}

\* Mutant: the pending timer is not cleared.
executedFunctionKeepsTimer(args) ==
    /\ handles < MaxDebounced /\ now + wait <= MaxTime
    /\ handles' = handles + 1
    /\ timers' = timers \cup {Timer(handles + 1, args)}
    /\ timeout' = handles + 1
    /\ lastCall' = [args |-> args, at |-> now]
    /\ UNCHANGED <<storage, ret, catalogs, updater, comparing, invoked>>

\* The function debounce returns, called.
executedFunction(args) ==
    /\ handles < MaxDebounced /\ now + wait <= MaxTime
    /\ handles' = handles + 1
    /\ timers' = Cleared(timers, timeout) \cup {Timer(handles + 1, args)}
    /\ timeout' = handles + 1
    /\ lastCall' = [args |-> args, at |-> now]
    /\ UNCHANGED <<storage, ret, catalogs, updater, comparing, invoked>>

\* The timer t fires, at or after its due time: clearTimeout(timeout), func(...args).
later(t) ==
    /\ t \in timers /\ t.due <= now
    /\ timers' = Cleared(timers \ {t}, timeout)
    /\ invoked' = Append(invoked, [args |-> t.args, at |-> now, id |-> t.id])
    /\ UNCHANGED <<storage, ret, catalogs, updater, comparing, timeout, handles, lastCall>>

\* Module load of the catalogs.
CatalogsAtLoad ==
    /\ pygmalionApiState = PygmalionDefault
    /\ backyardApiState = BackyardDefault
    /\ risuRealmApiState = RisuRealmDefault
    /\ requests = {}
    /\ issued = 0

\* No update check made yet, no version compared, the function debounced
\* and not yet called.
UpdaterAtLoad == updateCheckResult = NullV /\ checks = [c \in Checkers |-> IdleCheck]
NothingCompared ==
    /\ current = <<"0">> /\ latest = <<"0">> /\ parts0 = <<<<0>>, <<0>>>>
    /\ compared = NullV
DebouncerAtLoad ==
    /\ timeout = 0 /\ timers = {} /\ handles = 0 /\ invoked = <<>>
    /\ lastCall = [args |-> "", at |-> 0]

OthersAtLoad == CatalogsAtLoad /\ UpdaterAtLoad /\ NothingCompared /\ DebouncerAtLoad

\* ------------------------------------------- the state after module load
EmptyStore == [k \in AllKeys |-> NullV]
DefaultSettings ==
    [recentlyViewedEnabled |-> TRUE, persistentSearchEnabled |-> TRUE, maxRecentlyViewed |-> MaxM]

\* Module load, with what earlier sessions left in localForage and localStorage.
StorageAtLoad(durable, legacy) ==
    /\ memoryCache = DefaultCache
    /\ isStorageInitialized = FALSE
    /\ idb = durable
    /\ ls = legacy
    /\ pending = <<>>
    /\ rv = Arr(<<>>)
    /\ ret = NoRet
    /\ inserted = <<>>
    /\ now = 1
    /\ calls = 0
    /\ initp = [p \in Callers |-> IdleCall]
    /\ idb0 = idb
    /\ ls0 = ls
    /\ cachep = IdleClient
    /\ written = [k \in AllKeys |-> NotWritten]

ModuleLoad(durable, legacy) == StorageAtLoad(durable, legacy) /\ OthersAtLoad

\* Module load with nothing stored by an earlier session.
InitFresh == ModuleLoad(EmptyStore, EmptyStore)

\* A call is counted; one that may issue a durable write needs room for it.
Room(maxCalls) == calls < maxCalls /\ Len(pending) < MaxPending

WriteDone ==
    \/ \E i \in 1..MaxPending : IdbSetResolve(i)
    \/ \E i \in 1..MaxPending, lsOk \in BOOLEAN : IdbSetReject(i, lsOk)

\* ----------------------------------------------- bookmark call sequences
InitBookmarks == InitFresh /\ settings = DefaultSettings

NextBookmarks ==
    \/ Room(MaxCalls) /\ \E card \in Cards : addBookmark(card)
    \/ Room(MaxCalls) /\ \E id \in Ids : removeBookmark(id)
    \/ \E id \in Ids : isBookmarked(id)
    \/ loadBookmarksCall
    \/ WriteDone

SpecBookmarks == InitBookmarks /\ [][NextBookmarks]_vars

\* ------------------------------------------ import-history call sequences
\* The clock advances between the calls; a card is imported again under
\* another name.
ImportCards == {Card("a", "n1", "text"), Card("b", "n1", "text"), Card("a", "n2", "text"), BadDescCard}

InitImports == InitFresh /\ settings = DefaultSettings

NextImports ==
    \/ Room(MaxCalls) /\ \E card \in ImportCards : trackImportedCard(card)
    \/ Room(MaxCalls) /\ \E id \in {"a", "b"} : removeImportedCard(id)
    \/ Tick
    \/ \E i \in 1..MaxPending : IdbSetResolve(i)

SpecImports == InitImports /\ [][NextImports]_vars

\* ---------------------------------------- recently-viewed call sequences
\* maxRecentlyViewed is configured once; the feature is switched on and off;
\* every call is passed the list the previous one returned.
InitRecent ==
    /\ InitFresh
    /\ settings \in {s \in SettingsSet : s.persistentSearchEnabled}

NextRecent ==
    \/ Room(MaxCalls) /\ \E card \in Cards : addToRecentlyViewed(rv, card)
    \/ loadRecentlyViewed
    \/ SetSettings([settings EXCEPT !.recentlyViewedEnabled = ~settings.recentlyViewedEnabled])
    \/ WriteDone

SpecRecent == InitRecent /\ [][NextRecent]_vars

\* ------------------------------------- every mutator, any configuration
\* mutator calls in one behaviour of this scenario
MaxCallsAll == 2
\* The configurations of this scenario: every flag combination, with a small
\* and a large maxRecentlyViewed.
SomeSettings == {s \in SettingsSet : s.maxRecentlyViewed \in {1, MaxM}}
InitAll == InitFresh /\ settings \in SomeSettings

\* The inputs of this scenario: two ids, a null card, a card whose
\* description is no string; addToRecentlyViewed is passed the list its
\* caller holds or, by a caller that holds none, an empty one.
SomeIds == {"a", "b"}
SomeCards == {Card(i, "n1", "text") : i \in SomeIds} \cup {NullCard, BadDescCard}

\* The settings collaborator changes one setting at a time.
OneSettingChanged(s) ==
    Cardinality({f \in DOMAIN settings : s[f] # settings[f]}) = 1

Next ==
    \/ Room(MaxCallsAll) /\ \E l \in {rv, Arr(<<>>)}, card \in SomeCards : addToRecentlyViewed(l, card)
    \/ Room(MaxCallsAll) /\ \E card \in SomeCards : addBookmark(card)
    \/ Room(MaxCallsAll) /\ \E id \in SomeIds : removeBookmark(id)
    \/ Room(MaxCallsAll) /\ \E card \in SomeCards : trackImportedCard(card)
    \/ Room(MaxCallsAll) /\ \E id \in SomeIds : removeImportedCard(id)
    \/ Room(MaxCallsAll) /\ clearImportedCards
    \/ Room(MaxCallsAll) /\ \E st \in StatsInputs : saveImportStats(st)
    \/ Room(MaxCallsAll) /\ \E b \in BOOLEAN : saveSearchCollapsed(Bool(b))
    \/ Room(MaxCallsAll) /\ \E src \in Sources, d \in SearchInputs, lsOk \in BOOLEAN :
                              savePersistentSearch(src, d, lsOk)
    \/ WriteDone
    \/ \E s \in SomeSettings : OneSettingChanged(s) /\ SetSettings(s)

Spec == InitAll /\ [][Next]_vars

\* -------------------------------------------- a full import history
\* Earlier sessions left an import history one short of the ceiling, or at
\* it, which initializeStorage has loaded; the configuration is any.
OldCard(k) == Card("old" \o ToString(k), "n1", "text")
OldImports(n) == [k \in 1..n |-> ImportRecord(OldCard(k), 0)]

InitImportsFull ==
    /\ settings \in SomeSettings
    /\ \E n \in {MaxImports - 1, MaxImports} :
          /\ memoryCache = [DefaultCache EXCEPT !.importedCards = Arr(OldImports(n))]
          /\ idb = [EmptyStore EXCEPT ![K_importedCards] = Arr(OldImports(n))]
    /\ isStorageInitialized = TRUE
    /\ ls = EmptyStore
    /\ pending = <<>>
    /\ rv = Arr(<<>>)
    /\ ret = NoRet
    /\ inserted = <<>>
    /\ now = 1
    /\ calls = 0
    /\ initp = [p \in Callers |-> IdleCall]
    /\ idb0 = idb
    /\ ls0 = ls
    /\ cachep = IdleClient
    /\ written = [k \in AllKeys |-> NotWritten]
    /\ OthersAtLoad

\* New cards, a malformed one, and the newest and the oldest of the history.
FullCards == SomeCards \cup {OldCard(1), OldCard(MaxImports - 1)}

NextImportsFull ==
    \/ Room(MaxCallsAll) /\ \E card \in FullCards : trackImportedCard(card)
    \/ \E i \in 1..MaxPending : IdbSetResolve(i)
    \/ \E s \in SomeSettings : OneSettingChanged(s) /\ SetSettings(s)

SpecImportsFull == InitImportsFull /\ [][NextImportsFull]_vars

\* ------------------------------------------- the accessors between calls
\* Mutators fill the collections, the settings change, and the accessors
\* are called in between.
Accessor ==
    \/ loadRecentlyViewed
    \/ loadBookmarksCall
    \/ loadImportedCardsCall
    \/ loadImportStatsCall
    \/ loadSearchCollapsedCall
    \/ \E src \in Sources : loadPersistentSearchCall(src)
    \/ \E id \in SomeIds : isBookmarked(id)

NextAccessors ==
    \/ Room(MaxCallsAll) /\ \E card \in SomeCards : addToRecentlyViewed(rv, card)
    \/ Room(MaxCallsAll) /\ \E card \in SomeCards : addBookmark(card)
    \/ Room(MaxCallsAll) /\ \E card \in SomeCards : trackImportedCard(card)
    \/ Room(MaxCallsAll) /\ \E src \in Sources, d \in SearchInputs : savePersistentSearch(src, d, TRUE)
    \/ \E i \in 1..MaxPending : IdbSetResolve(i)
    \/ \E s \in SomeSettings : OneSettingChanged(s) /\ SetSettings(s)
    \/ Accessor

SpecAccessors == InitAll /\ [][NextAccessors]_vars

\* ------------------------------- write-through with writes kept in order
\* Mutators and accessors in any order, in any configuration; localForage
\* completes the writes in the order they were issued, none fails.
NextInOrder ==
    \/ Room(MaxCallsAll) /\ \E card \in SomeCards \ {NullCard, BadDescCard} : addToRecentlyViewed(rv, card)
    \/ Room(MaxCallsAll) /\ \E card \in SomeCards \ {NullCard, BadDescCard} : addBookmark(card)
    \/ Room(MaxCallsAll) /\ \E id \in SomeIds : removeBookmark(id)
    \/ Room(MaxCallsAll) /\ \E card \in SomeCards \ {NullCard, BadDescCard} : trackImportedCard(card)
    \/ Room(MaxCallsAll) /\ \E st \in StatsInputs : saveImportStats(st)
    \/ Room(MaxCallsAll) /\ \E b \in BOOLEAN : saveSearchCollapsed(Bool(b))
    \/ IdbSetResolve(1)
    \/ \E s \in SomeSettings : OneSettingChanged(s) /\ SetSettings(s)
    \/ loadRecentlyViewed
    \/ loadBookmarksCall

SpecInOrder == InitAll /\ [][NextInOrder]_vars

\* ------------------------------------------- initializeStorage at startup
\* keys an earlier session left a value under, in either store
MaxStored == 2

\* What earlier sessions can have left under a key: in localForage a value
\* the key's mutator stores, in localStorage the JSON text of one (a different
\* one, so that the two are told apart) or text that does not parse.
cardA == Card("a", "n1", "text")
cardB == Card("b", "n1", "text")
DurableValues(key) ==
    CASE key = K_searchCollapsed -> {Bool(FALSE), Bool(TRUE)}
      [] key = K_recentlyViewed -> {Arr(<<RecentRecord(cardA)>>)}
      [] key = K_importStats -> {Stats(1)}
      [] key = K_bookmarks -> {Arr(<<BookmarkRecord(cardA, 1)>>)}
      [] key = K_importedCards -> {Arr(<<ImportRecord(cardA, 1)>>)}
      [] OTHER -> {}
LegacyValues(key) ==
    CASE key = K_searchCollapsed -> {Bool(TRUE)}
      [] key = K_recentlyViewed -> {Arr(<<RecentRecord(cardB)>>)}
      [] key = K_importStats -> {Stats(2)}
      [] key = K_bookmarks -> {Arr(<<BookmarkRecord(cardB, 1)>>)}
      [] key = K_importedCards -> {Arr(<<ImportRecord(cardB, 1)>>)}
      [] OTHER -> {Search("f1", "s1")}
StoredPairs(key) ==
    {pr \in (DurableValues(key) \cup {NullV})
            \X ({JsonStringify(v) : v \in LegacyValues(key)} \cup {Garbage, NullV}) :
        pr # <<NullV, NullV>>}

InitStorage ==
    /\ settings = DefaultSettings
    /\ \E S \in {T \in SUBSET (Keys \cup SearchKeys) : Cardinality(T) <= MaxStored} :
         \E f \in [S -> UNION {StoredPairs(k) : k \in S}] :
            /\ \A k \in S : f[k] \in StoredPairs(k)
            /\ ModuleLoad([k \in AllKeys |-> IF k \in S THEN f[k][1] ELSE NullV],
                          [k \in AllKeys |-> IF k \in S THEN f[k][2] ELSE NullV])

\* Call sites that do not wait for each other, the stores working.
NextInit ==
    \/ \E p \in Callers : initializeStorage(p, FALSE)
    \/ \E p \in Callers, L \in SUBSET Sources : InitIdbGetDone(p, TRUE, FALSE, L)
    \/ \E p \in Callers, L \in SUBSET Sources : InitIdbSetDone(p, TRUE, TRUE, FALSE, L)

SpecInit == InitStorage /\ [][NextInit]_vars

\* The same, every call that can take a step eventually taking it: a
\* settled localForage promise resumes the call awaiting it.
SpecInitLive ==
    /\ SpecInit
    /\ \A p \in Callers :
          /\ WF_vars(\E L \in SUBSET Sources : InitIdbGetDone(p, TRUE, FALSE, L))
          /\ WF_vars(\E L \in SUBSET Sources : InitIdbSetDone(p, TRUE, TRUE, FALSE, L))

\* ------------------------------- initializeStorage over failing stores
\* Call sites that await each other's call, "c1" the first to call; any
\* localForage read or write may fail, any localStorage call may throw.
Suspended(p) == initp[p].pc \in {"idbGet", "idbSet"}
InTurn(p) == (\A q \in Callers : ~Suspended(q)) /\ (p = "c1" \/ initp["c1"].pc # "idle")
NextInitFaulty ==
    \/ \E p \in Callers, lsThrows \in BOOLEAN :
          InTurn(p) /\ initializeStorage(p, lsThrows)
    \/ \E p \in Callers, readOk \in BOOLEAN, lsThrows \in BOOLEAN, L \in SUBSET Sources :
          InitIdbGetDone(p, readOk, lsThrows, L)
    \/ \E p \in Callers, writeOk \in BOOLEAN, lsOk \in BOOLEAN, lsThrows \in BOOLEAN,
          L \in SUBSET Sources : InitIdbSetDone(p, writeOk, lsOk, lsThrows, L)

SpecInitFaulty == InitStorage /\ [][NextInitFaulty]_vars


\* ------------------------ mutators called while initializeStorage runs
\* mutator calls in one behaviour of this scenario
MaxCallsStartup == 2

\* What an earlier session left in localForage under the keys in S (nothing
\* is left in localStorage): the collapsed flag set, one record per list.
History(S) ==
    [k \in AllKeys |->
        IF k \notin S THEN NullV
        ELSE IF k = K_searchCollapsed THEN Bool(TRUE)
        ELSE CHOOSE v \in DurableValues(k) : TRUE]

InitStartup ==
    /\ settings = DefaultSettings
    /\ \E S \in SUBSET (Keys \ {K_importStats}) :
          /\ Cardinality(S) <= MaxStored
          /\ ModuleLoad(History(S), EmptyStore)

\* One call site calls initializeStorage; the application calls mutators
\* whenever it is suspended (and before, and after), addToRecentlyViewed
\* with the list loadRecentlyViewed returns at that moment.  The stores
\* work and localForage completes the writes in the order they were issued.
NextStartup ==
    \/ initializeStorage("c1", FALSE)
    \/ InitIdbGetDone("c1", TRUE, FALSE, {})
    \/ Room(MaxCallsStartup) /\ \E card \in {cardA, cardB} : addBookmark(card)
    \/ Room(MaxCallsStartup) /\ \E card \in {cardA, cardB} : trackImportedCard(card)
    \/ Room(MaxCallsStartup) /\ \E card \in {cardA, cardB} :
            addToRecentlyViewed(loadRecentlyViewedValue(memoryCache, settings), card)
    \/ Room(MaxCallsStartup) /\ \E b \in BOOLEAN : saveSearchCollapsed(Bool(b))
    \/ IdbSetResolve(1)

SpecStartup == InitStartup /\ [][NextStartup]_vars

\* ------------------------------------------- browsing the three catalogs
\* The interface starts listings, asks for more and resets, of any catalog
\* at any time; any request may fail.
InitCatalogs == InitFresh /\ settings = DefaultSettings

NextCatalogs ==
    \/ resetPygmalionApiState
    \/ loadMorePygmalionCharacters
    \/ \E r \in requests, ok \in BOOLEAN, result \in PygmalionResults : loadMorePygmalionDone(r, ok, result)
    \/ browsePygmalionCharacters(1)
    \/ \E r \in requests, ok \in BOOLEAN, result \in PygmalionResults : browsePygmalionDone(r, ok, result)
    \/ resetBackyardApiState
    \/ loadMoreBackyardCharacters
    \/ \E r \in requests, ok \in BOOLEAN, result \in BackyardResults : loadMoreBackyardDone(r, ok, result)
    \/ resetRisuRealmState
    \/ searchRisuRealm(1)
    \/ loadMoreRisuRealm
    \/ \E r \in requests, ok \in BOOLEAN, result \in RisuRealmResults : searchRisuRealmDone(r, ok, result)

SpecCatalogs == InitCatalogs /\ [][NextCatalogs]_vars

\* ------------------------------------------------------ checking for updates
\* Two call sites call checkForUpdates, again and again, without waiting
\* for each other; any fetch may fail.
InitUpdates == InitFresh /\ settings = DefaultSettings

NextUpdates ==
    \/ \E c \in Checkers, v \in CurrentVersions : checkForUpdates(c, v)
    \/ \E c \in Checkers, answer \in ManifestAnswers : ManifestFetched(c, answer)

SpecUpdates == InitUpdates /\ [][NextUpdates]_vars

\* ------------------------------------------------- comparing two versions
\* The versions compared: one to MaxParts components, small ones and one of
\* two digits.
VersionParts == UNION {[1..n -> {0, 1, 2, 10}] : n \in 1..MaxParts}

InitVersions ==
    /\ settings = DefaultSettings
    /\ StorageAtLoad(EmptyStore, EmptyStore)
    /\ CatalogsAtLoad /\ UpdaterAtLoad /\ DebouncerAtLoad
    /\ \E cp \in VersionParts, lp \in VersionParts :
          /\ parts0 = <<cp, lp>>
          /\ current = VersionText(cp)
          /\ latest = VersionText(lp)
    /\ compared = NullV

NextVersions == CompareVersionsCall

SpecVersions == InitVersions /\ [][NextVersions]_vars

\* --------------------------------------------------- a debounced function
\* The function is called at any time with either argument; time passes;
\* a timer that is due fires, sooner or later.
InitDebounce == InitFresh /\ settings = DefaultSettings

NextDebounce ==
    \/ \E args \in DebounceArgs : executedFunction(args)
    \/ \E t \in timers : later(t)
    \/ Tick

SpecDebounce ==
    /\ InitDebounce /\ [][NextDebounce]_vars
    /\ WF_vars(Tick)
    /\ WF_vars(\E t \in timers : later(t))

\* -------------------------------------------- the adapter and the TTL cache
Payloads == {Payload("p1"), Payload("p2")}
TtlInputs == (0..MaxTtl) \cup {DefaultTtlMs}

InitCache == InitFresh /\ settings = DefaultSettings

NextCache ==
    \/ \E key \in ApiKeys, data \in Payloads : idbSetCachedApi(key, data)
    \/ \E key \in ApiKeys, ttlMs \in TtlInputs : idbGetCachedApi(key, ttlMs)
    \/ \E key \in ApiKeys, val \in Payloads : idbSet(key, val)
    \/ \E key \in ApiKeys : idbGet(key)
    \/ \E writeOk \in BOOLEAN, lsOk \in BOOLEAN : IdbSetDone(writeOk, lsOk)
    \/ \E readOk \in BOOLEAN : IdbGetDone(readOk)
    \/ Tick

SpecCache == InitCache /\ [][NextCache]_vars

\* ======================================================================
\* Claims
\* ======================================================================

\* The distinct ids of a history, the most recently inserted first.
LastIndex(h, id) == CHOOSE i \in 1..Len(h) : h[i] = id /\ \A j \in (i + 1)..Len(h) : h[j] # id
DistinctIds(h) == {h[i] : i \in 1..Len(h)}
Recency(h) ==
    CHOOSE r \in [1..Cardinality(DistinctIds(h)) -> DistinctIds(h)] :
        \A i, j \in DOMAIN r : i < j => LastIndex(h, r[i]) > LastIndex(h, r[j])

C2_AtMostM ==
    (ret.op = "addToRecentlyViewed" /\ ret.outcome = "ok")
        => /\ Len(ret.val.l) <= settings.maxRecentlyViewed
           /\ memoryCache.recentlyViewed = ret.val
           /\ IdsOf(ret.val.l) = Take(Recency(inserted), settings.maxRecentlyViewed)

\* ---- C3 -------------------------------------------------------------
\* C3: the list addToRecentlyViewed hands back holds every id at most once,
\* in the order of each id's last insertion, the newest at index 0.
C3_DedupByRecency ==
    /\ rv.t = "arr"
    /\ NoDup(IdsOf(rv.l))
    /\ IsPrefix(IdsOf(rv.l), Recency(inserted))
    /\ (inserted # <<>> => rv.l # <<>>)

\* An id was inserted a second time.
C3_Witness == inserted = <<"a", "b", "a">> /\ IdsOf(rv.l) = <<"a", "b">>

\* ---- C4 -------------------------------------------------------------
\* Some initializeStorage call has run to its end.
InitCompleted == \E p \in Callers : initp[p].pc = "done"

\* C4: a value that localForage held under a well-known key at startup is
\* never replaced by initializeStorage (whatever localStorage holds under
\* the key), and once initializeStorage has completed the cache holds that
\* value.  (Stated for runs in which no store call fails.)
C4_DurableValueKept ==
    \A key \in Keys :
        (idb0[key] # NullV /\ \A p \in Callers : ~initp[p].faulted)
            => /\ idb[key] = idb0[key]
               /\ (InitCompleted => GetField(memoryCache, key) = idb0[key])

\* ---- C5 -------------------------------------------------------------
\* The call p got past the isStorageInitialized test and into the scan.
Scanning(p) == initp[p].pc \notin {"idle", "noop"}

\* The cache one uninterrupted initializeStorage call leaves after its first
\* pass, keys k.. still to do, given what the two stores hold.
RECURSIVE FirstPass(_, _, _, _)
FirstPass(cache, durable, legacy, k) ==
    IF k > Len(keys) THEN cache
    ELSE LET key == keys[k]
             lsVal == legacy[key]
             idbVal == IF NeedsMigration(lsVal, durable[key]) /\ ~ParseThrows(lsVal)
                       THEN JsonParse(lsVal) ELSE durable[key]
         IN FirstPass(LoadKey(cache, key, idbVal, lsVal), durable, legacy, k + 1)
SingleCallCaches ==
    {ScanSearches(FirstPass(DefaultCache, idb0, ls, 1), L) :
        L \in {M \in SUBSET Sources : ScanLoads(M, FALSE)}}

\* C5: however many initializeStorage calls are made, one after the other or
\* overlapping, at most one of them performs the scan (every other returns
\* at the flag test), and when all have returned the cache is one that a
\* single call produces.
C5_ScanOnce ==
    /\ Cardinality({p \in Callers : Scanning(p)}) <= 1
    /\ ((\A p \in Callers : initp[p].pc \in {"done", "noop"})
            => memoryCache \in SingleCallCaches)

\* ---- C6 -------------------------------------------------------------
Mutators ==
    {"addToRecentlyViewed", "addBookmark", "removeBookmark", "trackImportedCard",
     "removeImportedCard", "clearImportedCards", "saveImportStats",
     "saveSearchCollapsed", "savePersistentSearch"}

\* What the accessor matching the call r returns in the current state.
AccessorFor(r) ==
    CASE r.op = "addToRecentlyViewed" -> loadRecentlyViewedValue(memoryCache, settings)
      [] r.op \in {"addBookmark", "removeBookmark"} -> loadBookmarks
      [] r.op \in {"trackImportedCard", "removeImportedCard", "clearImportedCards"}
            -> loadImportedCards
      [] r.op = "saveImportStats" -> loadImportStats
      [] r.op = "saveSearchCollapsed" -> loadSearchCollapsed
      [] r.op = "savePersistentSearch" -> loadPersistentSearch(settings, r.arg)

\* C6 as stated: after any mutator call, in any configuration, the matching
\* accessor returns what the mutator returned (or was given to save), while
\* its durable write is pending and after it has succeeded or failed.
C6_ReadAfterWrite == ret.op \in Mutators => AccessorFor(ret) = ret.val

\* C6 amended: the same, for the calls that are not gated off by their
\* feature flag (recentlyViewedEnabled for addToRecentlyViewed,
\* persistentSearchEnabled for savePersistentSearch) and, for
\* addToRecentlyViewed, do not raise internally.
C6_ReadAfterEffectiveWrite ==
    (/\ ret.op \in Mutators
     /\ ret.outcome # "disabled"
     /\ ~(ret.op = "addToRecentlyViewed" /\ ret.outcome = "raised"))
        => AccessorFor(ret) = ret.val

\* addBookmark returned a list whose durable write then failed, the fallback
\* write too: nothing is stored, nothing is pending.
C6_Witness ==
    /\ ret.op = "addBookmark" /\ ret.outcome = "ok" /\ ret.val.l # <<>>
    /\ pending = <<>>
    /\ idb[K_bookmarks] = NullV /\ ls[K_bookmarks] = NullV

\* ---- C7 -------------------------------------------------------------
\* C7: the outcome of a durable write, success or failure, changes neither
\* what the mutator returned nor the cache, so the accessors answer the same
\* after a failed write as after a successful one.
C7_WriteOutcomeInvisible ==
    [][\A i \in 1..MaxPending, lsOk \in BOOLEAN :
            (IdbSetResolve(i) \/ IdbSetReject(i, lsOk))
                => (memoryCache' = memoryCache /\ ret' = ret
                    /\ (ret.op \in Mutators => AccessorFor(ret)' = AccessorFor(ret)))]_vars

\* trackImportedCard's durable write failed and went to the fallback store.
C7_Witness ==
    /\ ret.op = "trackImportedCard" /\ ret.outcome = "ok"
    /\ pending = <<>>
    /\ idb[K_importedCards] = NullV
    /\ ls[K_importedCards] = JsonStringify(ret.val)
    /\ loadImportedCards = ret.val

\* ---- C8 -------------------------------------------------------------
\* The awaited call op has returned, its localForage call having succeeded.
Returned(op) == cachep.pc = "idle" /\ cachep.op = op /\ cachep.ok

\* C8: idbGetCachedApi(key, ttl) returns the payload last cached under key
\* exactly when there is one and it was captured less than ttl before the
\* call returns, else null: a set followed by a get at the same clock
\* returns the payload, a get more than ttl later returns null.  (Stated
\* for gets whose own read succeeds.)
C8_FreshExactly ==
    Returned("idbGetCachedApi")
        => LET w == written[cachep.key]
           IN cachep.result =
                IF /\ w.how # "none"
                   /\ w.val.t = "entry"
                   /\ cachep.at - w.val.timestamp < cachep.ttl
                THEN w.val.payload ELSE NullV

\* ---- C9 -------------------------------------------------------------
\* C9: a value given to an idbSet whose localForage write failed and whose
\* localStorage fallback write succeeded is what the next idbGet of the key
\* returns.
C9_FallbackReadBack ==
    (Returned("idbGet") /\ written[cachep.key].how = "fallback")
        => cachep.result = written[cachep.key].val

\* ---- C10 ------------------------------------------------------------
\* C10: no persistence operation throws or returns a rejected promise,
\* whichever store calls fail and whatever the stores hold.
C10_NeverThrows ==
    /\ \A p \in Callers : initp[p].pc # "rejected"
    /\ cachep.pc # "rejected"
    /\ ret.outcome # "threw"

\* ---- C11 ------------------------------------------------------------
\* What a call that leaves everything alone satisfies: the cache, both
\* stores and the writes in flight are as before, and prior is returned.
LeavesAll(prior) ==
    /\ memoryCache' = memoryCache /\ pending' = pending
    /\ idb' = idb /\ ls' = ls
    /\ ret'.val = prior

\* C11: addToRecentlyViewed, addBookmark and trackImportedCard, called with
\* a record on which they raise (a null card; for trackImportedCard also a
\* new card whose description is no string), return the collection as it
\* was before the call (for addToRecentlyViewed the list it was passed),
\* leave the cache unchanged and issue no write; and they raise on these
\* records.
C11_RaiseLeavesCollection ==
    [][/\ \A l \in {rv, Arr(<<>>)}, card \in SomeCards :
            (addToRecentlyViewed(l, card) /\ settings.recentlyViewedEnabled)
                => /\ (card = NullCard) = (ret'.outcome = "raised")
                   /\ (ret'.outcome = "raised" => LeavesAll(l))
       /\ \A card \in SomeCards :
            addBookmark(card)
                => /\ (card = NullCard) = (ret'.outcome = "raised")
                   /\ (ret'.outcome = "raised" => LeavesAll(loadBookmarks))
       /\ \A card \in SomeCards :
            trackImportedCard(card)
                => /\ (card = NullCard
                        \/ (card.description = NonString
                            /\ ~HasId(loadImportedCards.l, card.id)))
                      = (ret'.outcome = "raised")
                   /\ (ret'.outcome = "raised" => LeavesAll(loadImportedCards))]_vars

\* trackImportedCard raised on a card with a non-string description while
\* the history held a record: the history is returned as it was.
C11_Witness ==
    /\ ret.op = "trackImportedCard" /\ ret.outcome = "raised"
    /\ ret.val.l # <<>>
    /\ loadImportedCards = ret.val
    /\ ~HasId(ret.val.l, BadDescCard.id)

\* ---- C12 ------------------------------------------------------------
\* At startup key had a legacy value that parses and no durable value.
OnlyLegacy(key) == idb0[key] = NullV /\ ls0[key] # NullV /\ ~ParseThrows(ls0[key])

\* Some initializeStorage call has run to its end with no store call failing.
InitCompletedClean == \E p \in Callers : initp[p].pc = "done" /\ ~initp[p].faulted

BadLegacy(key) == ls0[key] = Garbage /\ ~Truthy(idb0[key])

\* C13: a well-known key whose legacy text fails to parse keeps its durable
\* state and its default in the cache; no call is rejected, every call
\* made returns, and once one has completed storage is marked initialized
\* and the other keys are processed (a key with only a legacy value is
\* migrated, a durable value is loaded).
C13_ParseFailureSkipsKey ==
    /\ [](\A key \in Keys :
            BadLegacy(key)
                => /\ idb[key] = idb0[key]
                   /\ GetField(memoryCache, key) = GetField(DefaultCache, key))
    /\ [](\A p \in Callers : initp[p].pc # "rejected")
    /\ []((InitCompleted /\ \E key \in Keys : BadLegacy(key))
            => /\ isStorageInitialized
               /\ \A other \in Keys :
                    /\ OnlyLegacy(other)
                        => /\ idb[other] = JsonParse(ls0[other])
                           /\ GetField(memoryCache, other) = JsonParse(ls0[other])
                    /\ Truthy(idb0[other]) => GetField(memoryCache, other) = idb0[other])
    /\ \A p \in Callers : (initp[p].pc = "idbGet") ~> (initp[p].pc = "done")

\* The legacy bookmarks did not parse; the import history behind them was
\* migrated all the same and initialization completed.
C13_Witness ==
    /\ BadLegacy(K_bookmarks) /\ OnlyLegacy(K_importedCards)
    /\ InitCompleted /\ isStorageInitialized
    /\ loadBookmarks = Arr(<<>>)
    /\ idb[K_importedCards] = JsonParse(ls0[K_importedCards])
    /\ loadImportedCards = JsonParse(ls0[K_importedCards])

\* ---- C14 ------------------------------------------------------------
\* C14: once initializeStorage has completed, every per-source search key
\* that localStorage held with a well-formed value is in the cache under
\* its source name, whatever else localStorage holds, and localForage
\* holds nothing under a search key.
C14_SearchesMirrored ==
    InitCompleted
        => \A src \in Sources :
              /\ idb[SearchKey(src)] = NullV
              /\ (ls0[SearchKey(src)] # NullV /\ ~ParseThrows(ls0[SearchKey(src)]))
                    => memoryCache.persistentSearches[src] = JsonParse(ls0[SearchKey(src)])

\* ---- C15 ------------------------------------------------------------
\* savePersistentSearch, called in the current state, changes nothing.
SaveSearchIsNoOp ==
    \A src \in Sources, d \in SearchInputs, lsOk \in BOOLEAN :
        savePersistentSearch(src, d, lsOk)
            => (memoryCache' = memoryCache /\ idb' = idb /\ ls' = ls /\ pending' = pending)

\* C15 as stated: while recently-viewed is disabled, loadPersistentSearch
\* returns null for every source and savePersistentSearch changes neither
\* the cache nor a store.
C15_GatedByRecentFlag ==
    /\ [](~settings.recentlyViewedEnabled
            => \A src \in Sources : loadPersistentSearch(settings, src) = NullV)
    /\ [][~settings.recentlyViewedEnabled => SaveSearchIsNoOp]_vars

\* C15 amended: the same while persistentSearchEnabled, the flag of their
\* own, is off.
C15_GatedByOwnFlag ==
    /\ [](~settings.persistentSearchEnabled
            => \A src \in Sources : loadPersistentSearch(settings, src) = NullV)
    /\ [][~settings.persistentSearchEnabled => SaveSearchIsNoOp]_vars

\* A search was saved, the flag was switched off, and a second save did
\* nothing: the cache still holds the first, which load no longer returns.
C15_Witness ==
    /\ ~settings.persistentSearchEnabled
    /\ ret.op = "savePersistentSearch" /\ ret.outcome = "disabled"
    /\ Truthy(memoryCache.persistentSearches[ret.arg])
    /\ memoryCache.persistentSearches[ret.arg] # ret.val
    /\ loadPersistentSearch(settings, ret.arg) = NullV

\* ---- C16 ------------------------------------------------------------
\* C16 as stated: no accessor call changes the cache.
C16_AccessorsLeaveCache == [][Accessor => memoryCache' = memoryCache]_vars

\* C16 amended: no accessor call issues a write, and none changes the
\* cache but loadRecentlyViewed, which, when recently-viewed is enabled and
\* the cached list is longer than the effective maximum, replaces it by its
\* first maximum-many entries.
C16_OnlyLoadRecentTrims ==
    [][Accessor =>
          /\ pending' = pending /\ idb' = idb /\ ls' = ls
          /\ (memoryCache' # memoryCache
                => /\ loadRecentlyViewed
                   /\ settings.recentlyViewedEnabled
                   /\ Len(memoryCache.recentlyViewed.l) > MaxRecent(settings)
                   /\ memoryCache' =
                        [memoryCache EXCEPT !.recentlyViewed =
                            Arr(Take(@.l, MaxRecent(settings)))])]_vars

\* Two cards were viewed and stored, the maximum was lowered to one, and
\* loadRecentlyViewed cut the cached list down to the newest.
C16_Witness ==
    /\ ret.op = "loadRecentlyViewed"
    /\ idb[K_recentlyViewed].t = "arr"
    /\ Len(idb[K_recentlyViewed].l) > MaxRecent(settings)
    /\ memoryCache.recentlyViewed = Arr(Take(idb[K_recentlyViewed].l, MaxRecent(settings)))
    /\ ret.val = memoryCache.recentlyViewed

\* ---- C17 ------------------------------------------------------------
\* What trackImportedCard(card) does to a history that holds card's id, the
\* front record carrying the name given: one record with the id, at index
\* 0, with the import time of the call; the others in their order.
RetrackedWithName(card, name) ==
    LET old == loadImportedCards.l
        new == ret'.val.l
    IN /\ memoryCache'.importedCards = ret'.val
       /\ new # <<>>
       /\ new[1].id = card.id
       /\ new[1].imported_at = now
       /\ new[1].name = name
       /\ Tail(new) = WithoutId(old, card.id)
       /\ NoDup(IdsOf(new))

C18_CappedAtCeiling ==
    /\ [](ret.op = "trackImportedCard"
            => (Len(ret.val.l) <= MaxImports /\ Len(loadImportedCards.l) <= MaxImports))
    /\ [][\A card \in FullCards :
            (trackImportedCard(card) /\ ret'.outcome = "ok")
                => LET kept == WithoutId(loadImportedCards.l, card.id)
                       new == ret'.val.l
                   IN /\ Len(new) = Min(Len(kept) + 1, MaxImports)
                      /\ new[1].id = card.id
                      /\ Tail(new) = Take(kept, Len(new) - 1)]_vars

\* A new card was tracked into a history at the ceiling: the history is
\* still at the ceiling, its oldest record gone.
C18_Witness ==
    /\ ret.op = "trackImportedCard" /\ ret.outcome = "ok" /\ ret.arg = "a"
    /\ Len(idb0[K_importedCards].l) = MaxImports
    /\ Len(loadImportedCards.l) = MaxImports
    /\ loadImportedCards.l[2] = idb0[K_importedCards].l[1]
    /\ ~HasId(loadImportedCards.l, idb0[K_importedCards].l[MaxImports].id)

\* ---- C19 ------------------------------------------------------------
\* The durable write of key's cached value, as the call just made leaves it.
WriteOf(key) == [key |-> key, val |-> GetField(memoryCache', key)]

\* C19: a mutator call issues at most one durable write, behind those
\* already in flight (so writes to a key are issued in call order), and
\* when it changes the cached value of a durable-backed key it issues the
\* write of that key, carrying the new cached value.
C19_OneWritePerChange ==
    [][calls' # calls
        => /\ \/ pending' = pending
              \/ \E key \in Keys : pending' = Append(pending, WriteOf(key))
           /\ \A key \in Keys :
                GetField(memoryCache', key) # GetField(memoryCache, key)
                    => pending' = Append(pending, WriteOf(key))]_vars

\* Two bookmarks were added: both writes are in flight, in the order of
\* the calls, the later one carrying the cached list.
C19_Witness ==
    /\ Len(pending) = 2
    /\ pending[1].key = K_bookmarks /\ pending[2].key = K_bookmarks
    /\ Len(pending[1].val.l) = 1 /\ Len(pending[2].val.l) = 2
    /\ pending[2].val = memoryCache.bookmarks

\* ---- C20 ------------------------------------------------------------
\* C20: removeBookmark and removeImportedCard of an id that is not there,
\* and addToRecentlyViewed while recently-viewed is disabled, change neither
\* the cache nor a store, issue no write, and return the collection as it
\* was (for addToRecentlyViewed the list it was passed).
C20_NoChangeNoWrite ==
    [][/\ \A id \in SomeIds :
            (removeBookmark(id) /\ ~HasId(loadBookmarks.l, id))
                => LeavesAll(loadBookmarks)
       /\ \A id \in SomeIds :
            (removeImportedCard(id) /\ ~HasId(loadImportedCards.l, id))
                => LeavesAll(loadImportedCards)
       /\ \A l \in {rv, Arr(<<>>)}, card \in SomeCards :
            (addToRecentlyViewed(l, card) /\ ~settings.recentlyViewedEnabled)
                => LeavesAll(l)]_vars

\* A bookmark was added and another id removed: the bookmark is still
\* there and only the write of the add was issued.
C20_Witness ==
    /\ ret.op = "removeBookmark" /\ calls = 2
    /\ Len(ret.val.l) = 1 /\ loadBookmarks = ret.val
    /\ Len(pending) = 1 /\ pending[1].val = ret.val
    /\ idb[K_bookmarks] = NullV

\* ---- C21 ------------------------------------------------------------
\* C21: savePersistentSearch with the feature enabled sets the slot of its
\* source to exactly the data it was given, leaves every other slot and
\* every other field of the cache as they were, changes localStorage under
\* the key of that source at most (to the text of the data, or not at all
\* when setItem throws), and starts no localforage write.
C21_SaveSearchFrame ==
    [][(calls' = calls + 1 /\ ret'.op = "savePersistentSearch" /\ ret'.outcome = "ok")
        => /\ settings.persistentSearchEnabled
           /\ memoryCache' = [memoryCache EXCEPT !.persistentSearches[ret'.arg] = ret'.val]
           /\ \A k \in AllKeys \ {SearchKey(ret'.arg)} : ls'[k] = ls[k]
           /\ ls'[SearchKey(ret'.arg)] \in {ls[SearchKey(ret'.arg)], JsonStringify(ret'.val)}
           /\ idb' = idb /\ pending' = pending]_vars

\* A second save for a source replaced the slot the first had filled (the
\* first is still what localStorage holds, the second setItem having
\* thrown), and nothing was written to localforage.
C21_Witness ==
    /\ ret.op = "savePersistentSearch" /\ ret.outcome = "ok"
    /\ memoryCache.persistentSearches[ret.arg] = ret.val
    /\ ls[SearchKey(ret.arg)] \in {JsonStringify(d) : d \in SearchInputs \ {ret.val}}
    /\ \A src \in Sources \ {ret.arg} : memoryCache.persistentSearches[src] = Undefined
    /\ pending = <<>> /\ idb = idb0

\* ---- C22 ------------------------------------------------------------
\* The ids of the records localForage held under key at startup.
StartupIds(key) ==
    IF idb0[key].t = "arr" THEN {idb0[key].l[i].id : i \in 1..Len(idb0[key].l)} ELSE {}

\* C22: once initializeStorage has completed and no durable write is in
\* flight, each list in localForage still holds a record for every id it
\* held a record for at startup (the lists are shorter than their bounds).
C22_HistoryKept ==
    (initp["c1"].pc = "done" /\ pending = <<>>)
        => \A key \in {K_recentlyViewed, K_bookmarks, K_importedCards} :
              \A id \in StartupIds(key) : idb[key].t = "arr" /\ HasId(idb[key].l, id)

\* ---- C23 ------------------------------------------------------------
\* C23: once initializeStorage has completed, the accessor of the key the
\* last mutator call set returns what that call left in the cache.
C23_MutationKept ==
    (/\ initp["c1"].pc = "done"
     /\ ret.op \in {"addBookmark", "trackImportedCard", "addToRecentlyViewed",
                    "saveSearchCollapsed"}
     /\ ret.outcome = "ok")
        => AccessorFor(ret) = ret.val

\* ---- C24 ------------------------------------------------------------
\* No write of key is in flight, and one has been completed.
Settled(key) ==
    /\ \A i \in 1..Len(pending) : pending[i].key # key
    /\ idb[key] # NullV

\* C24 as stated: for every well-known key whose writes have all completed
\* (in issue order, none failing), localForage holds the value the cache
\* holds.
C24_DurableEqualsMirror ==
    \A key \in Keys : Settled(key) => idb[key] = GetField(memoryCache, key)

\* C24 amended: the same for every key but recently-viewed, whose cached
\* list is a prefix of the stored one (loadRecentlyViewed cuts the cached
\* list down to a lowered maximum without writing it).
C24_DurableEqualsMirrorUpToTrim ==
    \A key \in Keys :
        Settled(key) =>
            IF key = K_recentlyViewed
            THEN /\ idb[key].t = "arr" /\ memoryCache.recentlyViewed.t = "arr"
                 /\ IsPrefix(memoryCache.recentlyViewed.l, idb[key].l)
            ELSE idb[key] = GetField(memoryCache, key)

\* Two cards were viewed and written, the maximum was lowered to one, and
\* loadRecentlyViewed cut the cached list: the stored list is the longer.
C24_Witness ==
    /\ ret.op = "loadRecentlyViewed"
    /\ Settled(K_recentlyViewed)
    /\ Len(idb[K_recentlyViewed].l) = 2
    /\ Len(memoryCache.recentlyViewed.l) = 1

\* ---- C25 ------------------------------------------------------------
ApiState(src) ==
    CASE src = "pygmalion" -> pygmalionApiState
      [] src = "backyard" -> backyardApiState
      [] src = "risu" -> risuRealmApiState

\* The pagination position of a state object: its cursor, or its page.
Position(st) == IF "cursor" \in DOMAIN st THEN st.cursor ELSE Str(ToString(st.page))

\* The step is the completion of the load-more request r, as ok says.
LoadMoreDone(r, ok) ==
    /\ r.op = "loadMore"
    /\ \/ \E result \in PygmalionResults : loadMorePygmalionDone(r, ok, result)
       \/ \E result \in BackyardResults : loadMoreBackyardDone(r, ok, result)
       \/ \E result \in RisuRealmResults : searchRisuRealmDone(r, ok, result)

\* After the failure of a load-more request, nothing else having acted on
\* the catalog since its call, position and hasMore are what the call found
\* and isLoading is false.
FailureRestores(srcs) ==
    \A r \in requests :
        (r.src \in srcs /\ r.alone /\ LoadMoreDone(r, FALSE))
            => /\ Position(ApiState(r.src)') = Position(r.before)
               /\ ApiState(r.src)'.hasMore = r.before.hasMore
               /\ ~ApiState(r.src)'.isLoading

\* C25: when the request of a load-more call fails, the pagination position
\* and hasMore are as they were before the call and isLoading is false
\* again, for each of the three catalogs.
C25_FailureLeavesPosition == [][FailureRestores({"pygmalion", "backyard", "risu"})]_vars

\* ---- C26 ------------------------------------------------------------
\* C26: the completion of a Pygmalion or Backyard load-more request that was
\* issued before the state was reset (by resetPygmalionApiState,
\* browsePygmalionCharacters or resetBackyardApiState) changes nothing of
\* the pagination state.
C26_StaleCompletionIgnored ==
    [][\A r \in requests, ok \in BOOLEAN :
          (r.src \in {"pygmalion", "backyard"} /\ r.stale /\ LoadMoreDone(r, ok))
              => ApiState(r.src)' = ApiState(r.src)]_vars

\* ---- C27 ------------------------------------------------------------
\* The load-more requests of src in flight, and all its requests in flight.
LoadMoresInFlight(src) == {r \in requests : r.src = src /\ r.op = "loadMore"}
InFlight(src) == {r \in requests : r.src = src}

\* The step is a load-more call of src.
LoadMoreCall(src) ==
    CASE src = "pygmalion" -> loadMorePygmalionCharacters
      [] src = "backyard" -> loadMoreBackyardCharacters
      [] src = "risu" -> loadMoreRisuRealm

\* C27: no catalog ever has two load-more requests in flight, and a
\* load-more call made while a request of its catalog is in flight or
\* hasMore is false returns an empty result and issues no request.
C27_OneLoadMoreInFlight ==
    /\ [](\A src \in {"pygmalion", "backyard", "risu"} : Cardinality(LoadMoresInFlight(src)) <= 1)
    /\ [][\A src \in {"pygmalion", "backyard", "risu"} :
            (LoadMoreCall(src) /\ (InFlight(src) # {} \/ ~ApiState(src).hasMore))
                => (requests' = requests /\ ret'.val = Arr(<<>>))]_vars

\* ---- C28 ------------------------------------------------------------
\* C28: once a checkForUpdates call has completed, the cached result stays
\* what it is for the rest of the session, and every call made from then on
\* returns it without fetching anything, whatever version it passes and
\* whether the result is a success or the failure.
C28_CachedForSession ==
    /\ [][updateCheckResult # NullV => updateCheckResult' = updateCheckResult]_vars
    /\ [][\A c \in Checkers, v \in CurrentVersions :
            (updateCheckResult # NullV /\ checkForUpdates(c, v))
                => (checks'[c].pc = "done" /\ checks'[c].result = updateCheckResult)]_vars

\* ---- C29 ------------------------------------------------------------
\* The component-wise comparison of two versions given as numbers, from the
\* left, a missing trailing component counting as 0.
Componentwise(a, b) ==
    LET n == IF Len(a) > Len(b) THEN Len(a) ELSE Len(b)
        pa == [i \in 1..n |-> IF i <= Len(a) THEN a[i] ELSE 0]
        pb == [i \in 1..n |-> IF i <= Len(b) THEN b[i] ELSE 0]
        differ == {i \in 1..n : pa[i] # pb[i]}
    IN IF differ = {} THEN 0
       ELSE LET k == CHOOSE i \in differ : \A j \in differ : i <= j
            IN IF pa[k] < pb[k] THEN 0 - 1 ELSE 1

\* C29: compareVersions returns the component-wise numeric comparison of
\* the versions its arguments were written from, and the negation of what
\* it returns for the arguments exchanged.
C29_ComparesComponentwise ==
    compared # NullV
        => /\ compared.n = Componentwise(parts0[1], parts0[2])
           /\ compared.n = 0 - compareVersions(latest, current)

\* A version compared equal to a longer one that ends in a zero component,
\* both having a component of two digits.
C29_Witness ==
    /\ compared = Num(0)
    /\ Len(parts0[1]) < Len(parts0[2])
    /\ \E i \in 1..Len(parts0[1]) : parts0[1][i] = 10

\* ---- C30 ------------------------------------------------------------
\* C30: func is invoked by the timer of the most recent call only, with that
\* call's arguments, wait or more after it, and leaves no timer pending; a
\* call leaves exactly its own timer pending and invokes nothing; no call is
\* served twice; and a call is served unless a further call follows it.
C30_Debounced ==
    /\ [][\A t \in timers :
            later(t) => /\ t.id = timeout /\ t.args = lastCall.args
                        /\ now >= lastCall.at + wait
                        /\ timers' = {}]_vars
    /\ [][\A args \in DebounceArgs :
            executedFunction(args)
                => /\ timers' = {Timer(timeout', args)}
                   /\ invoked' = invoked]_vars
    /\ [](\A i, j \in 1..Len(invoked) : invoked[i].id = invoked[j].id => i = j)
    /\ \A h \in 1..MaxDebounced :
          (timeout = h) ~> (timeout # h \/ \E i \in 1..Len(invoked) : invoked[i].id = h)

\* Two calls in a row, then quiet: func has been invoked once, for the
\* second, and nothing is pending.
C30_Witness ==
    /\ handles = 2 /\ timers = {}
    /\ Len(invoked) = 1 /\ invoked[1].id = 2 /\ invoked[1].args = lastCall.args

====
